---- MODULE Spec2Model ----
(***************************************************************************)
(* Export service of the MTG proxy maker: the four export entry points,    *)
(* the Stable Diffusion enhancement pipeline (maybeUpscalePages) with its  *)
(* progress events, and the per-page canvas rendering loop.                *)
(***************************************************************************)
EXTENDS Integers, Sequences, FiniteSets, TLC

\* ---------------------------------------------------------------------
\* Bounds of the model
\* ---------------------------------------------------------------------
MaxPages == 2
MaxSlots == 3
ExpMaxPages == 1
ExpMaxSlots == 2
MaxListeners == 2
MaxEmits == 2
MaxCards == 10
MaxItems == 3
MaxPsPages == 3
MaxImages == 10
MaxChunks == 4

\* ---------------------------------------------------------------------
\* Program constants and value domains
\* ---------------------------------------------------------------------
COLS == 3
ROWS == 3

Null == "null"
EmptyUrl == ""
CardbackUrl == "cardback.jpg"
Urls == {EmptyUrl, "a", CardbackUrl}
DataUris == {"data:image/png;base64,1", "data:image/png;base64,2"}
Roles == {"front", "back"}
Entries == {"exportToPdf", "exportToPngs", "generatePngBlobs", "printPages"}

Min(a, b) == IF a <= b THEN a ELSE b
MinOf(S) == CHOOSE x \in S : \A y \in S : x <= y

\* /cardback\.jpg/i.test(url); a base64 data URI holds no '.', so it never matches
IsCardback(url) == url = CardbackUrl

\* ---------------------------------------------------------------------
\* Input batches: every sequence of at most MaxPages pages holding at most
\* MaxSlots images in total
\* ---------------------------------------------------------------------
RECURSIVE BatchesWith(_, _)
BatchesWith(k, n) ==
  IF k = 0 THEN {<<>>}
  ELSE UNION { UNION { { <<[role |-> r, images |-> imgs]>> \o rest :
                           rest \in BatchesWith(k - 1, n - m) } :
                       r \in Roles, imgs \in [1..m -> Urls] } :
               m \in 0..n }

Batches == UNION { BatchesWith(k, MaxSlots) : k \in 0..MaxPages }

ExpBatches == UNION { BatchesWith(k, ExpMaxSlots) : k \in 0..ExpMaxPages }

\* ---------------------------------------------------------------------
\* pageService
\* ---------------------------------------------------------------------
SetFromLayout(layout) ==
  [i \in 1..Len(layout) |->
     [pageNumber |-> ((i - 1) \div 2) + 1,
      side |-> layout[i].role,
      slots |-> SubSeq(layout[i].images, 1, Min(9, Len(layout[i].images)))]]

ToLayoutPages(records) ==
  [i \in 1..Len(records) |-> [role |-> records[i].side, images |-> records[i].slots]]

\* ---------------------------------------------------------------------
\* export service helpers
\* ---------------------------------------------------------------------
UseService(records, pages) == Len(records) = Len(pages) /\ Len(records) > 0

GetPagesFromServiceOrArg(records, pages) ==
  IF UseService(records, pages) THEN ToLayoutPages(records) ELSE pages

\* the first back record slot whose url matches cardback.jpg, else null
FindDefaultBackUrl(records) ==
  LET hit(i) == {j \in DOMAIN records[i].slots :
                   records[i].slots[j] # EmptyUrl /\ IsCardback(records[i].slots[j])}
      recs == {i \in DOMAIN records : records[i].side = "back" /\ hit(i) # {}}
  IN IF recs = {} THEN Null
     ELSE records[MinOf(recs)].slots[MinOf(hit(MinOf(recs)))]

\* the skip rule of both loops of maybeUpscalePages
\* variant: the default back is skipped on front pages as well
Excluded_AnySide(role, url, dbu) ==
  (dbu # Null /\ url = dbu) \/ IsCardback(url)

Excluded(role, url, dbu) ==
  role = "back" /\ ((dbu # Null /\ url = dbu) \/ IsCardback(url))

Eligible(role, url, dbu) == url # EmptyUrl /\ ~Excluded(role, url, dbu)

UniqueUrls(pages, dbu) ==
  { pages[p].images[i] : <<p, i>> \in
      { q \in UNION { {<<p, i>> : i \in DOMAIN pages[p].images} : p \in DOMAIN pages } :
          Eligible(pages[q[1]].role, pages[q[1]].images[q[2]], dbu) } }

\* [p, i] of the next image at or after (p, i) in page order; p = Len + 1 at the end
RECURSIVE Normalize(_, _, _)
Normalize(pages, p, i) ==
  IF p > Len(pages) THEN <<p, 1>>
  ELSE IF i > Len(pages[p].images) THEN Normalize(pages, p + 1, 1)
  ELSE <<p, i>>

SetUrl(pages, p, i, url) == [pages EXCEPT ![p].images[i] = url]

MapSet(m, k, v) == [x \in (DOMAIN m) \cup {k} |-> IF x = k THEN v ELSE m[x]]

\* ---------------------------------------------------------------------
\* State
\* ---------------------------------------------------------------------
VARIABLES
  entry,          \* the export entry point that was called
  upscaleWithSD,  \* options.upscaleWithSD
  records,        \* pageService.pages
  argPages,       \* the caller's pages argument
  list,           \* the pages the export works on
  aliased,        \* list holds the caller's page objects themselves
  pc,             \* position of the export function
  probed,         \* what isSdAvailable() answered, "none" before
  alerted,        \* alert() was shown
  ppc,            \* position of maybeUpscalePages
  orig,           \* the batch as maybeUpscalePages received it
  runs, defaultBackUrl, unique, total, current, cache,
  cur,            \* <<page, image>> the second loop is at
  inflight,       \* upscaleWithSd calls started and not yet completed
  calls,          \* every upscaleWithSd call made, with its outcome
  events,         \* every event passed to emitUpscaleProgress
  rcur,           \* <<page, image>> the rendering loop is at
  drawn,          \* images drawn with ctx.drawImage
  failedLoads,    \* slots whose loadImage rejected
  placeholders,   \* slots drawn as a placeholder
  rendered,       \* pages whose canvas was completed
  output          \* artifacts handed out (downloads, returned blobs, print window)

exportVars == <<entry, upscaleWithSD, records, argPages, list, aliased, pc, probed,
               alerted>>
pipeVars == <<ppc, orig, runs, defaultBackUrl, unique, total, current, cache, cur,
              inflight, calls, events>>
renderVars == <<rcur, drawn, failedLoads, placeholders, rendered, output>>

\* progress channel (lib/progress)
VARIABLES
  listeners,      \* the Set of registered listeners, in insertion order
  chanPc,         \* "idle", or "emitting" while emitUpscaleProgress iterates
  it,             \* entries of listeners the iteration has passed
  emitted,        \* every event passed to emitUpscaleProgress
  thrown,         \* emissions that ended with an exception of a listener
  received,       \* per listener, the events it was called with since it registered
  due,            \* per listener, the events emitted since it registered
  skipped         \* per emission, the listeners a throwing listener cut off

chanVars == <<listeners, chanPc, it, emitted, thrown, received, due, skipped>>

\* page geometry (lib/exportUtils, lib/export)
VARIABLES
  options,        \* the ExportOptions the geometry functions are applied to
  canvasPage,     \* <<CanvasPage>> once createBlankCanvasPage has run, <<>> before
  legacyMetrics,  \* <<metrics>> once computeLayoutMetrics of lib/export has run
  slotCall,       \* <<the createCardSlot call with its outcome>>
  guideCall       \* <<the drawCutGuidelines call with the lines it drew>>

geomVars == <<options, canvasPage, legacyMetrics, slotCall, guideCall>>

\* Stable Diffusion client (lib/sd)
VARIABLES
  sdCall,         \* the call under way: function, baseUrl, window, originalUrl
  sdPc,           \* position of that call
  sdRequests,     \* every request the call passed to fetch
  sdResponse,     \* <<the response the last fetch resolved with>>
  probeResult,    \* <<the boolean isSdAvailable resolved with>>
  upscaleResult,  \* <<the UpscaleResult upscaleWithSd resolved with>>
  sdThrew         \* the call rejected instead of resolving

sdVars == <<sdCall, sdPc, sdRequests, sdResponse, probeResult, upscaleResult, sdThrew>>

\* layout builder (lib/layout)
VARIABLES
  cardImages,     \* the CardImage[] passed to buildLayout
  defaultBack,    \* opts.defaultBack, <<>> when there is none
  layoutPages     \* <<the LayoutPages buildLayout returned>>

layoutVars == <<cardImages, defaultBack, layoutPages>>

\* Scryfall lookup (lib/scryfall/service)
VARIABLES
  items,          \* the ParsedItem[] passed to scryfallService
  scPc,           \* "idle", "cache", "build" or "done"
  cardCache,      \* names whose card is stored under scryfall:<name>, with its aliases
  uniqueNames,    \* the distinct names of the card items, in first-occurrence order
  scIdx,          \* position of the loop under way
  resolved,       \* the Map name -> ScryfallCard, entries in insertion order
  toFetch,        \* names to request from Scryfall
  results,        \* the CardImage[] built so far
  resultFrom      \* per entry of results, the index of the item it was built for

scryVars == <<items, scPc, cardCache, uniqueNames, scIdx, resolved, toFetch, results,
              resultFrom>>

\* image loader (loadImage of lib/exportUtils and of lib/export)
VARIABLES
  ldCall,         \* the call under way: which loadImage, and its url
  ldPc,           \* "idle", "fetch", "blob", "decode", "fallback" or "done"
  ldLog,          \* the steps that have settled, with their outcome
  ldRevoke,       \* the timer that revokes the object URL has been set
  ldResult        \* <<"resolved">> or <<"rejected">> once the promise has settled

loadVars == <<ldCall, ldPc, ldLog, ldRevoke, ldResult>>

\* page store (lib/pageService)
VARIABLES
  psPages,        \* this.pages, the PageRecord[] of the service
  psPc,           \* "new" after construction, "set" once setFromLayout has run
  psLayout,       \* the LayoutPages passed to setFromLayout
  psOut,          \* <<the LayoutPages toLayoutPages returned>>
  psCall          \* <<the replaceFront call, the records before it and its result>>

pageVars == <<psPages, psPc, psLayout, psOut, psCall>>

\* chunked collection requests (fetchCollectionByNames of lib/scryfall/service)
VARIABLES
  fcNames,        \* names.length
  nextIndex,      \* the index of the next chunk to take, from 0
  fcWorkers,      \* per worker: where it is, its chunk i and the attempt under way
  fcRequested,    \* per chunk, the workers that requested it
  fcStored,       \* the chunks whose cards have been put into map
  fcPc            \* "idle", "running", "resolved" or "rejected"

fetchVars == <<fcNames, nextIndex, fcWorkers, fcRequested, fcStored, fcPc>>

\* a second export over the same pages
VARIABLES
  prevRun         \* <<the pages, calls and dedup map the first run ended with>>

rerunVars == <<prevRun>>

libVars == <<chanVars, geomVars, sdVars, layoutVars, scryVars, loadVars, pageVars, fetchVars, rerunVars>>

notChan == <<exportVars, pipeVars, renderVars, geomVars, sdVars, layoutVars, scryVars, loadVars, pageVars, fetchVars, rerunVars>>
notGeom == <<exportVars, pipeVars, renderVars, chanVars, sdVars, layoutVars, scryVars, loadVars, pageVars, fetchVars, rerunVars>>
notSd == <<exportVars, pipeVars, renderVars, chanVars, geomVars, layoutVars, scryVars, loadVars, pageVars, fetchVars, rerunVars>>
notLayout == <<exportVars, pipeVars, renderVars, chanVars, geomVars, sdVars, scryVars, loadVars, pageVars, fetchVars, rerunVars>>
notScry == <<exportVars, pipeVars, renderVars, chanVars, geomVars, sdVars, layoutVars, loadVars, pageVars, fetchVars, rerunVars>>
notLoad == <<exportVars, pipeVars, renderVars, chanVars, geomVars, sdVars, layoutVars, scryVars, pageVars, fetchVars, rerunVars>>
notPage == <<exportVars, pipeVars, renderVars, chanVars, geomVars, sdVars, layoutVars, scryVars, loadVars, fetchVars, rerunVars>>
notFetch == <<exportVars, pipeVars, renderVars, chanVars, geomVars, sdVars, layoutVars, scryVars, loadVars, pageVars, rerunVars>>
\* the second export writes the export's own variables
notRerun == <<chanVars, geomVars, sdVars, layoutVars, scryVars, loadVars, pageVars, fetchVars>>

vars == <<exportVars, pipeVars, renderVars, libVars>>

ListenerIds == 1..MaxListeners

ChanInit ==
  /\ listeners = <<>>
  /\ chanPc = "idle"
  /\ it = 0
  /\ emitted = <<>>
  /\ thrown = {}
  /\ received = [l \in ListenerIds |-> <<>>]
  /\ due = [l \in ListenerIds |-> <<>>]
  /\ skipped = <<>>

\* an optional number is <<>> when undefined and <<v>> otherwise
DefaultOptions ==
  [dpi |-> 300, paper |-> "A4", orientation |-> "portrait", bleed |-> 0,
   alignmentOffsetX |-> 0, alignmentOffsetY |-> 0,
   printScaleCompensation |-> <<>>, printerPreset |-> "none"]

GeomIdle ==
  /\ options = DefaultOptions
  /\ canvasPage = <<>>
  /\ legacyMetrics = <<>>
  /\ slotCall = <<>>
  /\ guideCall = <<>>

DEFAULT_BASE == "http://127.0.0.1:7860"

SdIdle ==
  /\ sdCall = [fn |-> "none", baseUrl |-> DEFAULT_BASE, window |-> TRUE, originalUrl |-> EmptyUrl]
  /\ sdPc = "idle"
  /\ sdRequests = <<>>
  /\ sdResponse = <<>>
  /\ probeResult = <<>>
  /\ upscaleResult = <<>>
  /\ sdThrew = FALSE

LayoutIdle ==
  /\ cardImages = <<>>
  /\ defaultBack = <<>>
  /\ layoutPages = <<>>

ScryIdle ==
  /\ items = <<>>
  /\ scPc = "idle"
  /\ cardCache = {}
  /\ uniqueNames = <<>>
  /\ scIdx = 0
  /\ resolved = <<>>
  /\ toFetch = <<>>
  /\ results = <<>>
  /\ resultFrom = <<>>

LoadIdle ==
  /\ ldCall = [impl |-> "none", url |-> EmptyUrl]
  /\ ldPc = "idle"
  /\ ldLog = <<>>
  /\ ldRevoke = FALSE
  /\ ldResult = <<>>

PageIdle ==
  /\ psPages = <<>>
  /\ psPc = "new"
  /\ psLayout = <<>>
  /\ psOut = <<>>
  /\ psCall = <<>>

CONCURRENCY == 3

WorkerIds == 1..CONCURRENCY

NoWorker == [pc |-> "none", i |-> 0, attempt |-> 0]

FetchIdle ==
  /\ fcNames = 0
  /\ nextIndex = 0
  /\ fcWorkers = [w \in WorkerIds |-> NoWorker]
  /\ fcRequested = <<>>
  /\ fcStored = {}
  /\ fcPc = "idle"

RerunIdle == prevRun = <<>>

LibInit == ChanInit /\ GeomIdle /\ SdIdle /\ LayoutIdle /\ ScryIdle /\ LoadIdle /\ PageIdle /\ FetchIdle /\ RerunIdle

InitRun ==
  /\ probed = "none"
  /\ alerted = FALSE
  /\ ppc = "idle"
  /\ orig = <<>>
  /\ runs = 0
  /\ defaultBackUrl = Null
  /\ unique = {}
  /\ total = 0
  /\ current = 0
  /\ cache = <<>>
  /\ cur = <<1, 1>>
  /\ inflight = 0
  /\ calls = <<>>
  /\ events = <<>>
  /\ rcur = <<1, 1>>
  /\ drawn = <<>>
  /\ failedLoads = {}
  /\ placeholders = {}
  /\ rendered = <<>>
  /\ output = <<>>

\* an export entry point has just been called
Init ==
  /\ entry \in Entries
  /\ upscaleWithSD \in BOOLEAN
  /\ argPages \in ExpBatches
  /\ records \in {<<>>, SetFromLayout(argPages)}
  /\ list = <<>>
  /\ aliased = FALSE
  /\ pc = "called"
  /\ InitRun
  /\ LibInit

\* generatePngBlobs is about to call maybeUpscalePages on its page list
InitPipe ==
  /\ entry = "generatePngBlobs"
  /\ upscaleWithSD = TRUE
  /\ argPages \in Batches
  /\ records \in {<<>>, SetFromLayout(argPages)}
  /\ list = GetPagesFromServiceOrArg(records, argPages)
  /\ aliased = ~UseService(records, argPages)
  /\ pc = "upscale"
  /\ InitRun
  /\ LibInit

\* ---------------------------------------------------------------------
\* Export entry points: page selection and availability probe
\* ---------------------------------------------------------------------
ExportBegin ==
  /\ pc = "called"
  /\ list' = GetPagesFromServiceOrArg(records, argPages)
  /\ aliased' = ~UseService(records, argPages)
  /\ pc' = IF upscaleWithSD THEN "probe" ELSE "render"
  /\ UNCHANGED <<entry, upscaleWithSD, records, argPages, probed, alerted>>
  /\ UNCHANGED <<pipeVars, renderVars>>
  /\ UNCHANGED libVars

\* variant: the pipeline is run whatever isSdAvailable() answered
AfterUnavailable_Upscales(e) == "upscale"

\* where each entry point goes when isSdAvailable() answered false
AfterUnavailable(e) == IF e = "exportToPdf" THEN "render" ELSE "returned"

ProbeAnswered(available) ==
  /\ pc = "probe"
  /\ probed' = IF available THEN "available" ELSE "unavailable"
  /\ alerted' = ~available
  /\ pc' = IF available THEN "upscale" ELSE AfterUnavailable(entry)
  /\ UNCHANGED <<entry, upscaleWithSD, records, argPages, list, aliased>>
  /\ UNCHANGED <<pipeVars, renderVars>>
  /\ UNCHANGED libVars

\* ---------------------------------------------------------------------
\* maybeUpscalePages
\* ---------------------------------------------------------------------
Event(c, t, d) == [current |-> c, total |-> t, done |-> d]

AtImage == ppc = "loop" /\ cur[1] <= Len(list)
CurRole == list[cur[1]].role
CurUrl == list[cur[1]].images[cur[2]]
Advance == Normalize(list, cur[1], cur[2] + 1)

\* variant: the rebuilt pages share their image objects with the caller's pages
Rewrite_Shared(url) ==
  /\ list' = SetUrl(list, cur[1], cur[2], url)
  /\ argPages' = SetUrl(argPages, cur[1], cur[2], url)

\* img.url = ... on the page object; the caller's array holds the same object
\* when the export did not rebuild the pages from pageService
Rewrite(url) ==
  /\ list' = SetUrl(list, cur[1], cur[2], url)
  /\ argPages' = IF aliased THEN SetUrl(argPages, cur[1], cur[2], url) ELSE argPages

\* variant: the dedup map outlives the run and knows the data URIs it produced
PipelineBegin_Durable ==
  /\ pc = "upscale" /\ ppc = "idle"
  /\ runs' = runs + 1
  /\ orig' = list
  /\ defaultBackUrl' = FindDefaultBackUrl(records)
  /\ unique' = UniqueUrls(list, defaultBackUrl')
  /\ total' = Cardinality(unique')
  /\ events' = Append(events, Event(0, total', total' = 0))
  /\ current' = 0
  /\ cache' = [d \in { cache[u] : u \in DOMAIN cache } |-> d]
  /\ cur' = Normalize(list, 1, 1)
  /\ ppc' = "loop"
  /\ UNCHANGED <<inflight, calls>>
  /\ UNCHANGED <<exportVars, renderVars>>
  /\ UNCHANGED libVars

\* variant: the export starts rendering without awaiting maybeUpscalePages
PipelineBegin_NoAwait ==
  /\ pc = "upscale" /\ ppc = "idle"
  /\ runs' = runs + 1
  /\ orig' = list
  /\ defaultBackUrl' = FindDefaultBackUrl(records)
  /\ unique' = UniqueUrls(list, defaultBackUrl')
  /\ total' = Cardinality(unique')
  /\ events' = Append(events, Event(0, total', total' = 0))
  /\ current' = 0
  /\ cache' = <<>>
  /\ cur' = Normalize(list, 1, 1)
  /\ ppc' = "loop"
  /\ pc' = "render"
  /\ UNCHANGED <<inflight, calls>>
  /\ UNCHANGED <<entry, upscaleWithSD, records, argPages, list, aliased, probed, alerted>>
  /\ UNCHANGED renderVars
  /\ UNCHANGED libVars

PipelineBegin ==
  /\ pc = "upscale" /\ ppc = "idle"
  /\ runs' = runs + 1
  /\ orig' = list
  /\ defaultBackUrl' = FindDefaultBackUrl(records)
  /\ unique' = UniqueUrls(list, defaultBackUrl')
  /\ total' = Cardinality(unique')
  /\ events' = Append(events, Event(0, total', total' = 0))
  /\ current' = 0
  /\ cache' = <<>>
  /\ cur' = Normalize(list, 1, 1)
  /\ ppc' = "loop"
  /\ UNCHANGED <<inflight, calls>>
  /\ UNCHANGED <<exportVars, renderVars>>
  /\ UNCHANGED libVars

SkipImage ==
  /\ AtImage
  /\ ~Eligible(CurRole, CurUrl, defaultBackUrl)
  /\ cur' = Advance
  /\ UNCHANGED <<ppc, orig, runs, defaultBackUrl, unique, total, current, cache,
                 inflight, calls, events>>
  /\ UNCHANGED <<exportVars, renderVars>>
  /\ UNCHANGED libVars

\* variant: an occurrence served from the dedup map is counted and reported too
CacheHit_Emits ==
  /\ AtImage
  /\ Eligible(CurRole, CurUrl, defaultBackUrl)
  /\ CurUrl \in DOMAIN cache
  /\ Rewrite(cache[CurUrl])
  /\ cur' = Advance
  /\ current' = current + 1
  /\ events' = Append(events, Event(current', total, current' >= total))
  /\ UNCHANGED <<ppc, orig, runs, defaultBackUrl, unique, total, cache, inflight, calls>>
  /\ UNCHANGED <<entry, upscaleWithSD, records, aliased, pc, probed, alerted>>
  /\ UNCHANGED renderVars
  /\ UNCHANGED libVars

CacheHit ==
  /\ AtImage
  /\ Eligible(CurRole, CurUrl, defaultBackUrl)
  /\ CurUrl \in DOMAIN cache
  /\ Rewrite(cache[CurUrl])
  /\ cur' = Advance
  /\ UNCHANGED <<ppc, orig, runs, defaultBackUrl, unique, total, current, cache,
                 inflight, calls, events>>
  /\ UNCHANGED <<entry, upscaleWithSD, records, aliased, pc, probed, alerted>>
  /\ UNCHANGED renderVars
  /\ UNCHANGED libVars

\* variant: the call is issued without await and the loop moves on
StartCall_NoAwait ==
  /\ AtImage
  /\ Eligible(CurRole, CurUrl, defaultBackUrl)
  /\ CurUrl \notin DOMAIN cache
  /\ inflight' = inflight + 1
  /\ calls' = Append(calls, [p |-> cur[1], i |-> cur[2], url |-> CurUrl,
                             ok |-> FALSE, dataUrl |-> Null, pending |-> TRUE])
  /\ cur' = Advance
  /\ UNCHANGED <<ppc, orig, runs, defaultBackUrl, unique, total, current, cache, events>>
  /\ UNCHANGED <<exportVars, renderVars>>
  /\ UNCHANGED libVars

StartCall ==
  /\ AtImage
  /\ Eligible(CurRole, CurUrl, defaultBackUrl)
  /\ CurUrl \notin DOMAIN cache
  /\ inflight' = inflight + 1
  /\ calls' = Append(calls, [p |-> cur[1], i |-> cur[2], url |-> CurUrl,
                             ok |-> FALSE, dataUrl |-> Null, pending |-> TRUE])
  /\ ppc' = "await"
  /\ UNCHANGED <<orig, runs, defaultBackUrl, unique, total, current, cache, cur, events>>
  /\ UNCHANGED <<exportVars, renderVars>>
  /\ UNCHANGED libVars

\* what the loop stores in the dedup map after a call for url returned res
CacheAfter(c, url, ok, dataUrl) == IF ok THEN MapSet(c, url, dataUrl) ELSE c

CallReturns(ok, dataUrl) ==
  /\ ppc = "await"
  /\ calls' = [calls EXCEPT ![Len(calls)].ok = ok,
                            ![Len(calls)].dataUrl = dataUrl,
                            ![Len(calls)].pending = FALSE]
  /\ inflight' = inflight - 1
  /\ cache' = CacheAfter(cache, CurUrl, ok, dataUrl)
  /\ IF ok THEN Rewrite(dataUrl) ELSE UNCHANGED <<list, argPages>>
  /\ current' = current + 1
  /\ events' = Append(events, Event(current', total, current' >= total))
  /\ cur' = Advance
  /\ ppc' = "loop"
  /\ UNCHANGED <<orig, runs, defaultBackUrl, unique, total>>
  /\ UNCHANGED <<entry, upscaleWithSD, records, aliased, pc, probed, alerted>>
  /\ UNCHANGED renderVars
  /\ UNCHANGED libVars

CallSucceeds == \E d \in DataUris : CallReturns(TRUE, d)

\* variant: a failed call ends the run instead of being skipped
CallFails_Aborts ==
  /\ ppc = "await"
  /\ calls' = [calls EXCEPT ![Len(calls)].pending = FALSE]
  /\ inflight' = inflight - 1
  /\ ppc' = "finished"
  /\ pc' = "rejected"
  /\ UNCHANGED <<orig, runs, defaultBackUrl, unique, total, current, cache, cur, events>>
  /\ UNCHANGED <<entry, upscaleWithSD, records, argPages, list, aliased, probed, alerted>>
  /\ UNCHANGED renderVars
  /\ UNCHANGED libVars

CallFails == CallReturns(FALSE, Null)

\* variant: the terminating event is not emitted
PipelineEnd_NoFinalEvent ==
  /\ ppc = "loop" /\ cur[1] > Len(list)
  /\ ppc' = "finished"
  /\ pc' = "render"
  /\ UNCHANGED <<orig, runs, defaultBackUrl, unique, total, current, cache, cur,
                 inflight, calls, events>>
  /\ UNCHANGED <<entry, upscaleWithSD, records, argPages, list, aliased, probed, alerted>>
  /\ UNCHANGED renderVars
  /\ UNCHANGED libVars

PipelineEnd ==
  /\ ppc = "loop" /\ cur[1] > Len(list)
  /\ events' = Append(events, Event(total, total, TRUE))
  /\ ppc' = "finished"
  /\ pc' = "render"
  /\ UNCHANGED <<orig, runs, defaultBackUrl, unique, total, current, cache, cur,
                 inflight, calls>>
  /\ UNCHANGED <<entry, upscaleWithSD, records, argPages, list, aliased, probed, alerted>>
  /\ UNCHANGED renderVars
  /\ UNCHANGED libVars

\* ---------------------------------------------------------------------
\* Rendering loop and hand-over of the artifacts
\* ---------------------------------------------------------------------
\* loadImage resolves when the fetch path or the <img> fallback succeeds
LoadImage(primaryOk, fallbackOk) == primaryOk \/ fallbackOk

Cells(page) == SubSeq(page.images, 1, Min(COLS * ROWS, Len(page.images)))

AtCell == pc = "render" /\ rcur[1] <= Len(list) /\ rcur[2] <= Len(Cells(list[rcur[1]]))

\* placeCardCenteredIntoSlot: awaits loadImage and draws; a rejection propagates
PlaceCard(loaded) ==
  IF loaded
  THEN /\ drawn' = Append(drawn, <<rcur[1], rcur[2], Cells(list[rcur[1]])[rcur[2]]>>)
       /\ rcur' = <<rcur[1], rcur[2] + 1>>
       /\ UNCHANGED <<pc, failedLoads, placeholders>>
  ELSE /\ failedLoads' = failedLoads \cup {<<rcur[1], rcur[2]>>}
       /\ pc' = "rejected"
       /\ UNCHANGED <<drawn, rcur, placeholders>>

RenderImage ==
  /\ AtCell
  /\ \E primaryOk, fallbackOk \in BOOLEAN : PlaceCard(LoadImage(primaryOk, fallbackOk))
  /\ UNCHANGED <<entry, upscaleWithSD, records, argPages, list, aliased, probed, alerted>>
  /\ UNCHANGED <<rendered, output>>
  /\ UNCHANGED pipeVars
  /\ UNCHANGED libVars

FinishPage ==
  /\ pc = "render" /\ rcur[1] <= Len(list) /\ rcur[2] > Len(Cells(list[rcur[1]]))
  /\ rendered' = Append(rendered, rcur[1])
  /\ output' = IF entry = "exportToPngs" THEN Append(output, "png-download") ELSE output
  /\ rcur' = <<rcur[1] + 1, 1>>
  /\ UNCHANGED <<drawn, failedLoads, placeholders>>
  /\ UNCHANGED <<exportVars, pipeVars>>
  /\ UNCHANGED libVars

Artifact(e) ==
  CASE e = "exportToPdf" -> "pdf-download"
    [] e = "exportToPngs" -> "png-blobs"
    [] e = "generatePngBlobs" -> "png-blobs"
    [] e = "printPages" -> "print-window"

FinishExport ==
  /\ pc = "render" /\ rcur[1] > Len(list)
  /\ \E popupOk \in BOOLEAN :
       IF entry = "printPages" /\ ~popupOk
       THEN pc' = "rejected" /\ UNCHANGED output
       ELSE pc' = "returned" /\ output' = Append(output, Artifact(entry))
  /\ UNCHANGED <<entry, upscaleWithSD, records, argPages, list, aliased, probed, alerted>>
  /\ UNCHANGED <<rcur, drawn, failedLoads, placeholders, rendered>>
  /\ UNCHANGED pipeVars
  /\ UNCHANGED libVars

Next ==
  \/ ExportBegin
  \/ \E available \in BOOLEAN : ProbeAnswered(available)
  \/ PipelineBegin
  \/ SkipImage
  \/ CacheHit
  \/ StartCall
  \/ CallSucceeds
  \/ CallFails
  \/ PipelineEnd
  \/ RenderImage
  \/ FinishPage
  \/ FinishExport

Spec == Init /\ [][Next]_vars

NextPipe ==
  \/ PipelineBegin
  \/ SkipImage
  \/ CacheHit
  \/ StartCall
  \/ CallSucceeds
  \/ CallFails
  \/ PipelineEnd

PipeSpec == InitPipe /\ [][NextPipe]_vars

\* ---------------------------------------------------------------------
\* Progress channel: onUpscaleProgress / emitUpscaleProgress
\* ---------------------------------------------------------------------
\* no export is running; the frame of the specifications of the libraries
NoExport ==
  /\ entry = "generatePngBlobs"
  /\ upscaleWithSD = FALSE
  /\ argPages = <<>>
  /\ records = <<>>
  /\ list = <<>>
  /\ aliased = FALSE
  /\ pc = "idle"
  /\ InitRun

IsRegistered(l) == \E j \in DOMAIN listeners : listeners[j] = l

IndexOf(l) == CHOOSE j \in DOMAIN listeners : listeners[j] = l

Remove(seq, j) == SubSeq(seq, 1, j - 1) \o SubSeq(seq, j + 1, Len(seq))

\* variant: the registry is an array, a second registration adds a second entry
Subscribe_AsArray(l) ==
  /\ chanPc = "idle"
  /\ Len(listeners) <= MaxListeners
  /\ listeners' = Append(listeners, l)
  /\ received' = IF IsRegistered(l) THEN received ELSE [received EXCEPT ![l] = <<>>]
  /\ due' = IF IsRegistered(l) THEN due ELSE [due EXCEPT ![l] = <<>>]
  /\ UNCHANGED <<chanPc, it, emitted, thrown, skipped>>
  /\ UNCHANGED notChan

\* onUpscaleProgress(fn): listeners.add(fn)
Subscribe(l) ==
  /\ chanPc = "idle"
  /\ listeners' = IF IsRegistered(l) THEN listeners ELSE Append(listeners, l)
  /\ received' = IF IsRegistered(l) THEN received ELSE [received EXCEPT ![l] = <<>>]
  /\ due' = IF IsRegistered(l) THEN due ELSE [due EXCEPT ![l] = <<>>]
  /\ UNCHANGED <<chanPc, it, emitted, thrown, skipped>>
  /\ UNCHANGED notChan

\* the function onUpscaleProgress returned: listeners.delete(fn); it is called
\* between emissions or by a listener that is being called
Unsubscribe(l) ==
  /\ IsRegistered(l)
  /\ chanPc = "idle" \/ it >= 1
  /\ listeners' = Remove(listeners, IndexOf(l))
  /\ it' = IF chanPc = "emitting" /\ IndexOf(l) <= it THEN it - 1 ELSE it
  /\ UNCHANGED <<chanPc, emitted, thrown, received, due, skipped>>
  /\ UNCHANGED notChan

\* emitUpscaleProgress(p): the for-of loop starts
EmitBegin ==
  /\ chanPc = "idle"
  /\ Len(emitted) < MaxEmits
  /\ LET n == Len(emitted) + 1
          p == Event(n, MaxEmits, n >= MaxEmits)
     IN /\ emitted' = Append(emitted, p)
        /\ due' = [l \in ListenerIds |->
                     IF IsRegistered(l) THEN Append(due[l], p) ELSE due[l]]
        /\ skipped' = Append(skipped, {})
  /\ it' = 0
  /\ chanPc' = "emitting"
  /\ UNCHANGED <<listeners, thrown, received>>
  /\ UNCHANGED notChan

\* l(p) for the next entry of the Set; an exception of l leaves the loop and
\* emitUpscaleProgress
Deliver(throws) ==
  /\ chanPc = "emitting"
  /\ it < Len(listeners)
  /\ LET l == listeners[it + 1]
          n == Len(emitted)
     IN /\ received' = [received EXCEPT ![l] = Append(@, emitted[n])]
        /\ IF throws
           THEN /\ thrown' = thrown \cup {n}
                /\ skipped' = [skipped EXCEPT ![n] =
                                 {listeners[j] : j \in (it + 2)..Len(listeners)}]
                /\ chanPc' = "idle"
                /\ it' = 0
           ELSE /\ it' = it + 1
                /\ UNCHANGED <<thrown, skipped, chanPc>>
  /\ UNCHANGED <<listeners, emitted, due>>
  /\ UNCHANGED notChan

\* the for-of loop has passed the last entry
EmitEnd ==
  /\ chanPc = "emitting"
  /\ it >= Len(listeners)
  /\ chanPc' = "idle"
  /\ it' = 0
  /\ UNCHANGED <<listeners, emitted, thrown, received, due, skipped>>
  /\ UNCHANGED notChan

InitChan == NoExport /\ ChanInit /\ GeomIdle /\ SdIdle /\ LayoutIdle /\ ScryIdle /\ LoadIdle /\ PageIdle /\ FetchIdle /\ RerunIdle

NextChan ==
  \/ \E l \in ListenerIds : Subscribe(l)
  \/ \E l \in ListenerIds : Unsubscribe(l)
  \/ EmitBegin
  \/ \E throws \in BOOLEAN : Deliver(throws)
  \/ EmitEnd

ChanSpec == InitChan /\ [][NextChan]_vars

\* ---------------------------------------------------------------------
\* Page geometry: computeLayoutMetrics, createCardSlot, drawCutGuidelines
\* Lengths in mm are held in tenths of a millimetre, scale factors in
\* thousandths, margins in 1/20000 mm, so that every quotient the code rounds
\* is a quotient of integers.
\* ---------------------------------------------------------------------
Max(a, b) == IF a >= b THEN a ELSE b

\* Math.round(n / d) for d > 0: the nearest integer, a half rounds up
Round(n, d) == (2 * n + d) \div (2 * d)

\* a ?? d
Coalesce(opt, d) == IF opt = <<>> THEN d ELSE opt[1]

CARD_MM == [w |-> 630, h |-> 880]

PaperSizeMm(paper) ==
  IF paper = "A4" THEN [w |-> 2100, h |-> 2970] ELSE [w |-> 2159, h |-> 2794]

Papers == {"A4", "Letter"}
Orientations == {"portrait", "landscape"}
Dpis == {1, 72, 300}
Bleeds == {-10, 0, 10, 30}
OffsetsX == {0, 15}
ScaleInputs == {<<>>, <<-1000>>, <<0>>, <<950>>, <<1025>>, <<1100>>, <<2000>>}
Presets == {"none", "epson-normal", "epson-uniform"}

ExportOptions ==
  [dpi : Dpis, paper : Papers, orientation : Orientations, bleed : Bleeds,
   alignmentOffsetX : OffsetsX, alignmentOffsetY : {0},
   printScaleCompensation : ScaleInputs, printerPreset : Presets]

PageWMm(opts) ==
  IF opts.orientation = "portrait" THEN PaperSizeMm(opts.paper).w
  ELSE PaperSizeMm(opts.paper).h

PageHMm(opts) ==
  IF opts.orientation = "portrait" THEN PaperSizeMm(opts.paper).h
  ELSE PaperSizeMm(opts.paper).w

\* Math.max(0.95, Math.min(1.1, v))
ClampScale(v) == Max(950, Min(1100, v))

\* computeLayoutMetrics of lib/exportUtils
ComputeLayoutMetrics(opts) ==
  LET bleed == Max(0, opts.bleed)
      cardWMm == CARD_MM.w + 2 * bleed
      cardHMm == CARD_MM.h + 2 * bleed
      totalGridWMm == COLS * cardWMm
      totalGridHMm == ROWS * cardHMm
      scaleOverride == Coalesce(opts.printScaleCompensation, 1000)
      scale == ClampScale(scaleOverride)
  IN [cardWMm |-> cardWMm,
      cardHMm |-> cardHMm,
      marginXMm |-> Max(0, PageWMm(opts) * 1000 - totalGridWMm * scale),
      marginYMm |-> Max(0, PageHMm(opts) * 1000 - totalGridHMm * scale),
      offsetXMm |-> opts.alignmentOffsetX,
      offsetYMm |-> opts.alignmentOffsetY,
      scale |-> scale]

\* the scale of computeLayoutMetrics of lib/export: a missing or zero override
\* gives way to the factor of the printer preset
AutoScale(opts) ==
  IF Coalesce(opts.printScaleCompensation, 0) = 0
  THEN CASE opts.printerPreset = "epson-normal" -> 1018
         [] opts.printerPreset = "epson-uniform" -> 1024
         [] OTHER -> 1000
  ELSE 1000

LegacyScale(opts) ==
  LET psc == Coalesce(opts.printScaleCompensation, 0)
  IN ClampScale(IF psc # 0 THEN psc ELSE AutoScale(opts))

PagePixelSize(opts) ==
  [w |-> Round(PageWMm(opts) * opts.dpi, 254),
   h |-> Round(PageHMm(opts) * opts.dpi, 254)]

CanvasPageOf(opts) ==
  [metrics |-> ComputeLayoutMetrics(opts), options |-> opts, pagePx |-> PagePixelSize(opts)]

\* variant: a gutter of one pixel between neighbouring slots
SlotRect_Gutter(pg, idx) ==
  LET m == pg.metrics
      dpi == pg.options.dpi
      cardWpx == Round(m.cardWMm * dpi * m.scale, 254000)
      cardHpx == Round(m.cardHMm * dpi * m.scale, 254000)
      originX == Round((m.marginXMm + m.offsetXMm * 2000) * dpi, 508000)
      originY == Round((m.marginYMm + m.offsetYMm * 2000) * dpi, 508000)
      col == idx % COLS
      row == idx \div COLS
  IN [x |-> originX + col * (cardWpx + 1), y |-> originY + row * (cardHpx + 1),
      w |-> cardWpx, h |-> cardHpx]

\* the rectangle createCardSlot computes for idx = position - 1
SlotRect(pg, idx) ==
  LET m == pg.metrics
      dpi == pg.options.dpi
      cardWpx == Round(m.cardWMm * dpi * m.scale, 254000)
      cardHpx == Round(m.cardHMm * dpi * m.scale, 254000)
      originX == Round((m.marginXMm + m.offsetXMm * 2000) * dpi, 508000)
      originY == Round((m.marginYMm + m.offsetYMm * 2000) * dpi, 508000)
      col == idx % COLS
      row == idx \div COLS
  IN [x |-> originX + col * cardWpx, y |-> originY + row * cardHpx,
      w |-> cardWpx, h |-> cardHpx]

NoRect == [x |-> 0, y |-> 0, w |-> 0, h |-> 0]

\* positions are held in halves, so that 3 stands for 1.5
PositionsX2 == {-2, 0, 3, 19, 20} \cup {2 * k : k \in 1..(COLS * ROWS)}

\* Number.isInteger(position) && position >= 1 && position <= 9
ValidPosition(position2) == position2 % 2 = 0 /\ position2 >= 2 /\ position2 <= 18

\* variant: the position is not validated
CreateCardSlot_Unchecked(pg, position2, addBlackBackground) ==
  LET rect == SlotRect(pg, (position2 \div 2) - 1)
  IN [position2 |-> position2, threw |-> FALSE, rect |-> rect,
      fills |-> IF addBlackBackground THEN <<rect>> ELSE <<>>]

\* createCardSlot: the outcome of one call, fills being its fillRect calls
CreateCardSlot(pg, position2, addBlackBackground) ==
  IF ~ValidPosition(position2)
  THEN [position2 |-> position2, threw |-> TRUE, rect |-> NoRect, fills |-> <<>>]
  ELSE LET rect == SlotRect(pg, (position2 \div 2) - 1)
       IN [position2 |-> position2, threw |-> FALSE, rect |-> rect,
           fills |-> IF addBlackBackground THEN <<rect>> ELSE <<>>]

\* the four lines of drawCutGuidelines as <<x, y, x, y>> in half pixels
GuideLines(slot, extendPx) ==
  LET x0 == slot.x
      y0 == slot.y
      x1 == slot.x + slot.w
      y1 == slot.y + slot.h
  IN { <<2 * (x0 - extendPx), 2 * y0 + 1, 2 * (x1 + extendPx), 2 * y0 + 1>>,
       <<2 * (x0 - extendPx), 2 * y1 + 1, 2 * (x1 + extendPx), 2 * y1 + 1>>,
       <<2 * x0 + 1, 2 * (y0 - extendPx), 2 * x0 + 1, 2 * (y1 + extendPx)>>,
       <<2 * x1 + 1, 2 * (y0 - extendPx), 2 * x1 + 1, 2 * (y1 + extendPx)>> }

InitGeom ==
  /\ NoExport
  /\ RerunIdle
  /\ FetchIdle
  /\ PageIdle
  /\ LoadIdle
  /\ ScryIdle
  /\ ChanInit
  /\ SdIdle
  /\ LayoutIdle
  /\ options \in ExportOptions
  /\ canvasPage = <<>>
  /\ legacyMetrics = <<>>
  /\ slotCall = <<>>
  /\ guideCall = <<>>

CreateBlankCanvasPage ==
  /\ canvasPage = <<>> /\ legacyMetrics = <<>>
  /\ canvasPage' = <<CanvasPageOf(options)>>
  /\ UNCHANGED <<options, legacyMetrics, slotCall, guideCall>>
  /\ UNCHANGED notGeom

LegacyComputeLayoutMetrics ==
  /\ canvasPage = <<>> /\ legacyMetrics = <<>>
  /\ legacyMetrics' = <<[scale |-> LegacyScale(options)]>>
  /\ UNCHANGED <<options, canvasPage, slotCall, guideCall>>
  /\ UNCHANGED notGeom

CallCreateCardSlot(position2, addBlackBackground) ==
  /\ canvasPage # <<>> /\ slotCall = <<>>
  /\ slotCall' = <<CreateCardSlot(canvasPage[1], position2, addBlackBackground)>>
  /\ UNCHANGED <<options, canvasPage, legacyMetrics, guideCall>>
  /\ UNCHANGED notGeom

\* drawCutGuidelines(page, slot) for the slot createCardSlot returned
DrawCutGuidelines ==
  /\ slotCall # <<>> /\ ~slotCall[1].threw
  /\ guideCall = <<>>
  /\ guideCall' = <<[position2 |-> slotCall[1].position2,
                     lines |-> GuideLines(slotCall[1].rect, 0)]>>
  /\ UNCHANGED <<options, canvasPage, legacyMetrics, slotCall>>
  /\ UNCHANGED notGeom

NextGeom ==
  \/ CreateBlankCanvasPage
  \/ LegacyComputeLayoutMetrics
  \/ \E position2 \in PositionsX2, addBlackBackground \in BOOLEAN :
       CallCreateCardSlot(position2, addBlackBackground)
  \/ DrawCutGuidelines

GeomSpec == InitGeom /\ [][NextGeom]_vars

\* ---------------------------------------------------------------------
\* Stable Diffusion client: isSdAvailable, upscaleWithSd
\* A string the code splits at commas is held as the sequence of its parts.
\* ---------------------------------------------------------------------
OtherBase == "http://sd.example:7860"

SdFunctions == {"isSdAvailable", "upscaleWithSd"}

\* computePrefix
ComputePrefix(baseUrl, window) ==
  IF window /\ baseUrl = DEFAULT_BASE
  THEN [prefix |-> "/sd", proxy |-> TRUE]
  ELSE [prefix |-> baseUrl, proxy |-> FALSE]

Statuses == {200, 204, 301, 404, 500}

\* Response.ok
ResOk(status) == status >= 200 /\ status <= 299

NoImage == [kind |-> "missing", parts |-> <<>>]

ImageFields ==
  { NoImage,
    [kind |-> "number", parts |-> <<>>],
    [kind |-> "string", parts |-> <<"">>],
    [kind |-> "string", parts |-> <<"", "">>],
    [kind |-> "string", parts |-> <<"QUJD">>],
    [kind |-> "string", parts |-> <<"data:image/png;base64", "QUJD">>] }

Bodies ==
  { [kind |-> "not-json", image |-> NoImage], [kind |-> "null", image |-> NoImage] }
  \cup { [kind |-> "object", image |-> f] : f \in ImageFields }

Responses == [status : Statuses, body : Bodies]

Rejections == {"network-error", "abort"}

PngPrefix == "data:image/png;base64"

Failure(error) == [ok |-> FALSE, dataUrl |-> <<>>, error |-> error]

\* the response to the POST raises an exception inside the try block:
\* res.json() of a body that is not JSON, outB64.includes of a non-string
PostThrows(res) ==
  /\ ResOk(res.status)
  /\ \/ res.body.kind = "not-json"
     \/ res.body.kind = "object" /\ res.body.image.kind = "number"

\* what upscaleWithSd returns for the response to its POST
UpscaleOutcome(res) ==
  IF ~ResOk(res.status) THEN Failure("SD extras HTTP")
  ELSE IF PostThrows(res) THEN Failure("exception")
  ELSE IF res.body.image.kind = "missing" THEN Failure("No image returned from SD extras")
  ELSE IF res.body.image.parts = <<"">> THEN Failure("No image returned from SD extras")
  ELSE LET outB64 == res.body.image.parts
           clean == IF Len(outB64) > 1 THEN outB64[2] ELSE outB64[1]
       IN [ok |-> TRUE, dataUrl |-> <<PngPrefix, clean>>, error |-> ""]

InitSd ==
  /\ NoExport
  /\ RerunIdle
  /\ FetchIdle
  /\ PageIdle
  /\ LoadIdle
  /\ ScryIdle
  /\ ChanInit
  /\ GeomIdle
  /\ LayoutIdle
  /\ sdCall \in [fn : SdFunctions, baseUrl : {DEFAULT_BASE, OtherBase}, window : BOOLEAN,
                  originalUrl : {"a"}]
  /\ sdPc = "start"
  /\ sdRequests = <<>>
  /\ sdResponse = <<>>
  /\ probeResult = <<>>
  /\ upscaleResult = <<>>
  /\ sdThrew = FALSE

SdPrefix == ComputePrefix(sdCall.baseUrl, sdCall.window).prefix

\* isSdAvailable: fetch(`${prefix}/sdapi/v1/upscalers`)
ProbeFetch ==
  /\ sdPc = "start" /\ sdCall.fn = "isSdAvailable"
  /\ sdRequests' = Append(sdRequests,
       [method |-> "GET", prefix |-> SdPrefix, path |-> "/sdapi/v1/upscalers"])
  /\ sdPc' = "probe-fetch"
  /\ UNCHANGED <<sdCall, sdResponse, probeResult, upscaleResult, sdThrew>>
  /\ UNCHANGED notSd

\* the fetch rejects (network error, abort): the catch block returns false
ProbeFetchRejects(why) ==
  /\ sdPc = "probe-fetch"
  /\ probeResult' = <<FALSE>>
  /\ sdPc' = "done"
  /\ UNCHANGED <<sdCall, sdRequests, sdResponse, upscaleResult, sdThrew>>
  /\ UNCHANGED notSd

ProbeFetchResolves(res) ==
  /\ sdPc = "probe-fetch"
  /\ sdResponse' = <<res>>
  /\ IF ~ResOk(res.status)
     THEN probeResult' = <<FALSE>> /\ sdPc' = "done"
     ELSE sdPc' = "probe-json" /\ UNCHANGED probeResult
  /\ UNCHANGED <<sdCall, sdRequests, upscaleResult, sdThrew>>
  /\ UNCHANGED notSd

\* variant: res.json() is awaited outside the try block
ProbeJsonSettles_Uncaught ==
  /\ sdPc = "probe-json"
  /\ IF sdResponse[1].body.kind = "not-json"
     THEN sdThrew' = TRUE /\ UNCHANGED probeResult
     ELSE probeResult' = <<TRUE>> /\ UNCHANGED sdThrew
  /\ sdPc' = "done"
  /\ UNCHANGED <<sdCall, sdRequests, sdResponse, upscaleResult>>
  /\ UNCHANGED notSd

\* await res.json(): a body that is not JSON throws into the catch block
ProbeJsonSettles ==
  /\ sdPc = "probe-json"
  /\ probeResult' = <<sdResponse[1].body.kind # "not-json">>
  /\ sdPc' = "done"
  /\ UNCHANGED <<sdCall, sdRequests, sdResponse, upscaleResult, sdThrew>>
  /\ UNCHANGED notSd

\* upscaleWithSd: fetchImageAsBase64(originalUrl) sends its GET
SourceFetch ==
  /\ sdPc = "start" /\ sdCall.fn = "upscaleWithSd"
  /\ sdRequests' = Append(sdRequests,
       [method |-> "GET", prefix |-> sdCall.originalUrl, path |-> ""])
  /\ sdPc' = "source-fetch"
  /\ UNCHANGED <<sdCall, sdResponse, probeResult, upscaleResult, sdThrew>>
  /\ UNCHANGED notSd

\* fetchImageAsBase64 throws (fetch rejected, status not ok, blob or FileReader
\* failed) or returns the base64 text
SourceSettles(fetched, status, readOk) ==
  /\ sdPc = "source-fetch"
  /\ IF fetched /\ ResOk(status) /\ readOk
     THEN sdPc' = "payload" /\ UNCHANGED upscaleResult
     ELSE /\ upscaleResult' = <<Failure("source")>>
          /\ sdPc' = "done"
  /\ UNCHANGED <<sdCall, sdRequests, sdResponse, probeResult, sdThrew>>
  /\ UNCHANGED notSd

\* variant: a response that is not ok is posted again
PostSettles_Retry(fetched, res) ==
  /\ sdPc = "post"
  /\ IF fetched /\ ~ResOk(res.status) /\ Len(sdRequests) < 3
     THEN /\ sdRequests' = Append(sdRequests,
               [method |-> "POST", prefix |-> SdPrefix, path |-> "/sdapi/v1/extra-single-image"])
          /\ sdResponse' = <<res>>
          /\ UNCHANGED <<upscaleResult, sdPc>>
     ELSE /\ sdResponse' = IF fetched THEN <<res>> ELSE sdResponse
          /\ upscaleResult' =
               <<IF ~fetched THEN Failure("exception") ELSE UpscaleOutcome(res)>>
          /\ sdPc' = "done"
          /\ UNCHANGED sdRequests
  /\ UNCHANGED <<sdCall, probeResult, sdThrew>>
  /\ UNCHANGED notSd

\* fetch(`${prefix}/sdapi/v1/extra-single-image`, {method: 'POST', ...})
PostFetch ==
  /\ sdPc = "payload"
  /\ sdRequests' = Append(sdRequests,
       [method |-> "POST", prefix |-> SdPrefix, path |-> "/sdapi/v1/extra-single-image"])
  /\ sdPc' = "post"
  /\ UNCHANGED <<sdCall, sdResponse, probeResult, upscaleResult, sdThrew>>
  /\ UNCHANGED notSd

\* the POST rejects or resolves with res; every exception of the try block
\* ends in the catch block, which returns {ok: false, error}
PostSettles(fetched, res) ==
  /\ sdPc = "post"
  /\ sdResponse' = IF fetched THEN <<res>> ELSE sdResponse
  /\ upscaleResult' =
       <<IF ~fetched THEN Failure("exception") ELSE UpscaleOutcome(res)>>
  /\ sdPc' = "done"
  /\ UNCHANGED <<sdCall, sdRequests, probeResult, sdThrew>>
  /\ UNCHANGED notSd

NextSd ==
  \/ ProbeFetch
  \/ \E why \in Rejections : ProbeFetchRejects(why)
  \/ \E res \in Responses : ProbeFetchResolves(res)
  \/ ProbeJsonSettles
  \/ SourceFetch
  \/ \E fetched \in BOOLEAN, status \in Statuses, readOk \in BOOLEAN :
       SourceSettles(fetched, status, readOk)
  \/ PostFetch
  \/ \E fetched \in BOOLEAN, res \in Responses : PostSettles(fetched, res)

SdSpec == InitSd /\ [][NextSd]_vars

\* ---------------------------------------------------------------------
\* Layout builder: buildLayout
\* A url is a pair <<kind, card number>>; a missing backUrl is <<>>.
\* ---------------------------------------------------------------------
perPage == 9

cols == 3

CardImage(k, hasBack) ==
  [id |-> k, frontUrl |-> <<"front", k>>,
   backUrl |-> IF hasBack THEN <<"back", k>> ELSE <<>>]

CardLists ==
  UNION { { [k \in 1..n |-> CardImage(k, flags[k])] : flags \in [1..n -> BOOLEAN] } :
          n \in 0..MaxCards }

Reverse(seq) == [k \in 1..Len(seq) |-> seq[Len(seq) + 1 - k]]

\* variant: the default back is preferred to the card's own back
BackUrlOf_DefaultFirst(c, dflt) ==
  IF dflt # <<>> THEN dflt ELSE IF c.backUrl # <<>> THEN c.backUrl ELSE c.frontUrl

\* c.backUrl || opts.defaultBack || c.frontUrl
BackUrlOf(c, dflt) ==
  IF c.backUrl # <<>> THEN c.backUrl ELSE IF dflt # <<>> THEN dflt ELSE c.frontUrl

LayoutImage(url) == [url |-> url, x |-> 0, y |-> 0, w |-> 0, h |-> 0]

Ceil(n, d) == (n + d - 1) \div d

\* the images one pass of the loop over the rows pushes to backImages
BackRow(slice, r, dflt) ==
  LET start == r * cols
      row == SubSeq(slice, start + 1, Min(start + cols, Len(slice)))
      reversedRow == Reverse(row)
  IN [k \in 1..Len(reversedRow) |-> LayoutImage(BackUrlOf(reversedRow[k], dflt))]

RECURSIVE BackImages(_, _, _, _)
BackImages(slice, r, rows, dflt) ==
  IF r >= rows THEN <<>>
  ELSE BackRow(slice, r, dflt) \o BackImages(slice, r + 1, rows, dflt)

RECURSIVE BuildLayout(_, _, _)
BuildLayout(images, i, dflt) ==
  IF i >= Len(images) THEN <<>>
  ELSE LET slice == SubSeq(images, i + 1, Min(i + perPage, Len(images)))
           front == [id |-> <<"front", (i \div perPage) + 1>>, role |-> "front",
                     images |-> [k \in 1..Len(slice) |-> LayoutImage(slice[k].frontUrl)]]
           rows == Ceil(Len(slice), cols)
           back == [id |-> <<"back", (i \div perPage) + 1>>, role |-> "back",
                    images |-> BackImages(slice, 0, rows, dflt)]
       IN <<front, back>> \o BuildLayout(images, i + perPage, dflt)

InitLayout ==
  /\ NoExport
  /\ RerunIdle
  /\ FetchIdle
  /\ PageIdle
  /\ LoadIdle
  /\ ScryIdle
  /\ ChanInit
  /\ GeomIdle
  /\ SdIdle
  /\ cardImages \in CardLists
  /\ defaultBack \in {<<>>, <<"default", 0>>}
  /\ layoutPages = <<>>

CallBuildLayout ==
  /\ layoutPages = <<>>
  /\ layoutPages' = <<BuildLayout(cardImages, 0, defaultBack)>>
  /\ UNCHANGED <<cardImages, defaultBack>>
  /\ UNCHANGED notLayout

NextLayout == CallBuildLayout

LayoutSpec == InitLayout /\ [][NextLayout]_vars

\* the second buildLayout of the file: the back sheet is the whole slice reversed
RECURSIVE BuildLayoutReversed(_, _, _)
BuildLayoutReversed(images, i, dflt) ==
  IF i >= Len(images) THEN <<>>
  ELSE LET slice == SubSeq(images, i + 1, Min(i + perPage, Len(images)))
           reversed == Reverse(slice)
           front == [id |-> <<"front", (i \div perPage) + 1>>, role |-> "front",
                     images |-> [k \in 1..Len(slice) |-> LayoutImage(slice[k].frontUrl)]]
           back == [id |-> <<"back", (i \div perPage) + 1>>, role |-> "back",
                    images |-> [k \in 1..Len(reversed) |->
                                  LayoutImage(BackUrlOf(reversed[k], dflt))]]
       IN <<front, back>> \o BuildLayoutReversed(images, i + perPage, dflt)

CallBuildLayoutReversed ==
  /\ layoutPages = <<>>
  /\ layoutPages' = <<BuildLayoutReversed(cardImages, 0, defaultBack)>>
  /\ UNCHANGED <<cardImages, defaultBack>>
  /\ UNCHANGED notLayout

NextLayouts ==
  \/ CallBuildLayout
  \/ CallBuildLayoutReversed

LayoutsSpec == InitLayout /\ [][NextLayouts]_vars

\* ---------------------------------------------------------------------
\* Scryfall lookup: scryfallService (lib/scryfall/service)
\* Names are single words; Scryfall knows one card, "Bolt", and matches
\* names without regard to case.
\* ---------------------------------------------------------------------
ItemNames == {"Bolt", "bolt", "Bo", "Zzz"}

ParsedItems == [type : {"card", "token"}, name : ItemNames]

ItemLists == UNION { [1..n -> ParsedItems] : n \in 0..MaxItems }

\* lowercase, diacritics and punctuation removed, spaces collapsed
normalizeName(s) ==
  CASE s = "Bolt" -> "bolt"
    [] s = "Bo" -> "bo"
    [] s = "Zzz" -> "zzz"
    [] OTHER -> s

\* a.includes(b) over the normalised names
Includes(a, b) == a = b \/ (a = "bolt" /\ b = "bo")

StrLen(s) == CASE s = "bo" -> 2 [] s = "zzz" -> 3 [] OTHER -> 4

\* what parseScryfallCard returns for the card Scryfall knows: no card_faces
BoltCard ==
  [name |-> "Bolt", set |-> "lea", frontImage |-> "bolt.png", backImage |-> <<>>,
   card_faces |-> <<>>]

\* the cards of the data array Scryfall answers a chunk of names with
ScryfallData(names) ==
  IF \E k \in DOMAIN names : normalizeName(names[k]) = "bolt" THEN {BoltCard} ELSE {}

\* Array.from(new Set(names))
RECURSIVE UniqueOf(_)
UniqueOf(seq) ==
  IF seq = <<>> THEN <<>>
  ELSE LET rest == UniqueOf(SubSeq(seq, 1, Len(seq) - 1))
           x == seq[Len(seq)]
       IN IF \E k \in DOMAIN rest : rest[k] = x THEN rest ELSE Append(rest, x)

CardNames(its) == 
  LET idx == { k \in DOMAIN its : its[k].type = "card" }
      F[k \in 0..Len(its)] ==
        IF k = 0 THEN <<>>
        ELSE IF k \in idx THEN Append(F[k - 1], its[k].name) ELSE F[k - 1]
  IN F[Len(its)]

\* Map.get and Map.set on a Map kept as its entries in insertion order
ResolvedGet(m, key) ==
  IF \E k \in DOMAIN m : m[k].key = key
  THEN <<m[CHOOSE k \in DOMAIN m : m[k].key = key].card>>
  ELSE <<>>

ResolvedSet(m, key, card) ==
  IF \E k \in DOMAIN m : m[k].key = key
  THEN [k \in DOMAIN m |-> IF m[k].key = key THEN [key |-> key, card |-> card] ELSE m[k]]
  ELSE Append(m, [key |-> key, card |-> card])

\* the alias index holds, per cached card, its normalised name and its words;
\* the candidate found is read back from scryfall:<its name>
resolveFromAliases(inputName, cached) ==
  IF \E c \in cached : normalizeName(c) = normalizeName(inputName)
  THEN <<BoltCard>>
  ELSE <<>>

\* the key of resolved the last-resort lookup picks: the first of the matching
\* keys with the shortest normalised name
BestKey(m, name) ==
  LET itNorm == normalizeName(name)
      match == { k \in DOMAIN m : \/ Includes(normalizeName(m[k].key), itNorm)
                                  \/ Includes(itNorm, normalizeName(m[k].key)) }
      best == { k \in match : \A j \in match :
                  StrLen(normalizeName(m[k].key)) <= StrLen(normalizeName(m[j].key)) }
  IN IF match = {} THEN <<>>
     ELSE <<m[CHOOSE k \in best : \A j \in best : k <= j].key>>

\* the card the loop over items ends up with for one item
LookupForItem(m, name, cached) ==
  IF ResolvedGet(m, name) # <<>> THEN ResolvedGet(m, name)
  ELSE IF BestKey(m, name) # <<>> THEN ResolvedGet(m, BestKey(m, name)[1])
  ELSE resolveFromAliases(name, cached)

\* the CardImage pushed for a card
CardImageOf(card, idBase) ==
  IF card.card_faces # <<>>
  THEN [id |-> <<card.set, idBase, "a">>, name |-> card.name,
        frontUrl |-> card.card_faces[1], backUrl |-> <<card.card_faces[2]>>]
  ELSE [id |-> <<card.set, idBase>>, name |-> card.name,
        frontUrl |-> card.frontImage, backUrl |-> card.backImage]

InitScry ==
  /\ NoExport
  /\ RerunIdle
  /\ FetchIdle
  /\ PageIdle
  /\ LoadIdle
  /\ ChanInit
  /\ GeomIdle
  /\ SdIdle
  /\ LayoutIdle
  /\ items \in ItemLists
  /\ cardCache \in {{}, {"Bolt"}}
  /\ scPc = "cache"
  /\ uniqueNames = UniqueOf(CardNames(items))
  /\ scIdx = 1
  /\ resolved = <<>>
  /\ toFetch = <<>>
  /\ results = <<>>
  /\ resultFrom = <<>>

\* one pass of the loop over uniqueNames
CheckCache ==
  /\ scPc = "cache" /\ scIdx <= Len(uniqueNames)
  /\ LET name == uniqueNames[scIdx]
         fuzzy == resolveFromAliases(name, cardCache)
     IN IF name \in cardCache
        THEN /\ resolved' = ResolvedSet(resolved, name, BoltCard)
             /\ UNCHANGED toFetch
        ELSE IF fuzzy # <<>>
        THEN /\ resolved' = ResolvedSet(resolved, name, fuzzy[1])
             /\ UNCHANGED toFetch
        ELSE /\ toFetch' = Append(toFetch, name)
             /\ UNCHANGED resolved
  /\ scIdx' = scIdx + 1
  /\ UNCHANGED <<items, scPc, cardCache, uniqueNames, results, resultFrom>>
  /\ UNCHANGED notScry

\* if (toFetch.length): fetchCollectionByNames and the loop over its entries;
\* up to 75 names are one chunk, whose request is answered (ok) or fails
FetchMissing(ok) ==
  /\ scPc = "cache" /\ scIdx > Len(uniqueNames)
  /\ LET fetched == IF toFetch # <<>> /\ ok THEN ScryfallData(toFetch) ELSE {}
     IN /\ resolved' = IF fetched = {} THEN resolved
                       ELSE ResolvedSet(resolved, BoltCard.name, BoltCard)
        /\ cardCache' = cardCache \cup { c.name : c \in fetched }
  /\ scPc' = "build"
  /\ scIdx' = 1
  /\ UNCHANGED <<items, uniqueNames, toFetch, results, resultFrom>>
  /\ UNCHANGED notScry

\* one pass of the loop over items
BuildResult ==
  /\ scPc = "build" /\ scIdx <= Len(items)
  /\ LET card == LookupForItem(resolved, items[scIdx].name, cardCache)
     IN IF card # <<>>
        THEN /\ results' = Append(results, CardImageOf(card[1], Len(results)))
             /\ resultFrom' = Append(resultFrom, scIdx)
        ELSE UNCHANGED <<results, resultFrom>>
  /\ scIdx' = scIdx + 1
  /\ UNCHANGED <<items, scPc, cardCache, uniqueNames, resolved, toFetch>>
  /\ UNCHANGED notScry

ScryReturn ==
  /\ scPc = "build" /\ scIdx > Len(items)
  /\ scPc' = "done"
  /\ UNCHANGED <<items, cardCache, uniqueNames, scIdx, resolved, toFetch, results,
                 resultFrom>>
  /\ UNCHANGED notScry

NextScry ==
  \/ CheckCache
  \/ \E ok \in BOOLEAN : FetchMissing(ok)
  \/ BuildResult
  \/ ScryReturn

ScrySpec == InitScry /\ [][NextScry]_vars

\* ---------------------------------------------------------------------
\* Image loader: loadImage (lib/exportUtils and lib/export)
\* ---------------------------------------------------------------------
LoadImpls == {"exportUtils", "export"}

InitLoad ==
  /\ NoExport
  /\ RerunIdle
  /\ FetchIdle
  /\ PageIdle
  /\ ChanInit
  /\ GeomIdle
  /\ SdIdle
  /\ LayoutIdle
  /\ ScryIdle
  /\ ldCall \in [impl : LoadImpls, url : (Urls \ {EmptyUrl}) \cup DataUris]
  /\ ldPc = "fetch"
  /\ ldLog = <<>>
  /\ ldRevoke = FALSE
  /\ ldResult = <<>>

\* variant: no catch, a failure of the primary path rejects the call
LdCatch_Rejects ==
  /\ ldPc' = "done"
  /\ ldResult' = <<"rejected">>

\* catch (e): the direct image element is created
LdCatch ==
  /\ ldPc' = "fallback"
  /\ ldResult' = ldResult

\* await fetch(url) settles; if (!res.ok) throw
LdFetchSettles(fetched, status) ==
  /\ ldPc = "fetch"
  /\ ldLog' = Append(ldLog, [step |-> "fetch", ok |-> fetched /\ ResOk(status),
                              status |-> IF fetched THEN <<status>> ELSE <<>>])
  /\ IF fetched /\ ResOk(status)
     THEN ldPc' = "blob" /\ ldResult' = ldResult
     ELSE LdCatch
  /\ UNCHANGED <<ldCall, ldRevoke>>
  /\ UNCHANGED notLoad

\* await res.blob() settles
LdBlobSettles(ok) ==
  /\ ldPc = "blob"
  /\ ldLog' = Append(ldLog, [step |-> "blob", ok |-> ok, status |-> <<>>])
  /\ IF ok
     THEN ldPc' = "decode" /\ ldResult' = ldResult
     ELSE LdCatch
  /\ UNCHANGED <<ldCall, ldRevoke>>
  /\ UNCHANGED notLoad

\* the image element of the object URL fires onload or onerror; the finally
\* block sets the timer that revokes the object URL
LdDecodeSettles(ok) ==
  /\ ldPc = "decode"
  /\ ldLog' = Append(ldLog, [step |-> "decode", ok |-> ok, status |-> <<>>])
  /\ ldRevoke' = TRUE
  /\ IF ok
     THEN ldPc' = "done" /\ ldResult' = <<"resolved">>
     ELSE LdCatch
  /\ UNCHANGED ldCall
  /\ UNCHANGED notLoad

\* the direct image element fires onload or onerror
LdFallbackSettles(ok) ==
  /\ ldPc = "fallback"
  /\ ldLog' = Append(ldLog, [step |-> "fallback", ok |-> ok, status |-> <<>>])
  /\ ldPc' = "done"
  /\ ldResult' = IF ok THEN <<"resolved">> ELSE <<"rejected">>
  /\ UNCHANGED <<ldCall, ldRevoke>>
  /\ UNCHANGED notLoad

NextLoad ==
  \/ \E fetched \in BOOLEAN, status \in Statuses : LdFetchSettles(fetched, status)
  \/ \E ok \in BOOLEAN : LdBlobSettles(ok)
  \/ \E ok \in BOOLEAN : LdDecodeSettles(ok)
  \/ \E ok \in BOOLEAN : LdFallbackSettles(ok)

LoadSpec == InitLoad /\ [][NextLoad]_vars

\* ---------------------------------------------------------------------
\* Page store: PageService (lib/pageService)
\* An optional value is <<>> when undefined or null and <<v>> otherwise;
\* cardNumber is counted in halves so that 1.5 is an input.
\* ---------------------------------------------------------------------
SlotsPerPage == 9

PageLens == {1, MaxImages - 1, MaxImages}

\* the k-th image of a page: every second one has no name
PsImage(k) ==
  [url |-> <<"u", k>>, x |-> k, y |-> k, w |-> 1, h |-> 1,
   name |-> IF k % 2 = 1 THEN <<k>> ELSE <<>>]

PsLayoutPage(role, n) ==
  [id |-> <<role, 0>>, role |-> role, images |-> [k \in 1..n |-> PsImage(k)]]

PsPageShapes == { PsLayoutPage(role, n) : role \in Roles, n \in PageLens }

PsLayouts == UNION { [1..n -> PsPageShapes] : n \in 0..MaxPsPages }

\* the cards argument: none, or the card whose front is the first image
PsCards == {<<>>, <<[id |-> 1, name |-> 1, frontUrl |-> <<"u", 1>>, backUrl |-> <<>>]>>}

\* urlToCard.get(url) || null
UrlToCard(cards, url) ==
  IF \E k \in DOMAIN cards : cards[k].frontUrl = url \/ cards[k].backUrl = <<url>>
  THEN <<cards[CHOOSE k \in DOMAIN cards :
                 /\ cards[k].frontUrl = url \/ cards[k].backUrl = <<url>>
                 /\ \A j \in DOMAIN cards :
                      (cards[j].frontUrl = url \/ cards[j].backUrl = <<url>>) => j <= k]>>
  ELSE <<>>

\* variant: the images are kept beyond the ninth
SliceSlots_All(images) == images

\* (lp.images || []).slice(0, 9)
SliceSlots(images) == SubSeq(images, 1, Min(SlotsPerPage, Len(images)))

setFromLayout(layout, cards) ==
  [i \in 1..Len(layout) |->
     LET kept == SliceSlots(layout[i].images)
     IN [pageNumber |-> ((i - 1) \div 2) + 1,
         side |-> layout[i].role,
         slots |-> [k \in 1..Len(kept) |->
                      [url |-> kept[k].url, name |-> kept[k].name,
                       card |-> UrlToCard(cards, kept[k].url)]]]]

toLayoutPages(pages) ==
  [i \in 1..Len(pages) |->
     [id |-> <<pages[i].side, pages[i].pageNumber>>,
      role |-> pages[i].side,
      images |-> [k \in 1..Len(pages[i].slots) |->
                    [url |-> pages[i].slots[k].url, x |-> 0, y |-> 0, w |-> 0, h |-> 0,
                     name |-> pages[i].slots[k].name]]]]

\* this.pages.find(...): the index of the first match, 0 when there is none
PsFind(pages, pageNumber, side) ==
  LET hits == { i \in DOMAIN pages : pages[i].pageNumber = pageNumber /\ pages[i].side = side }
  IN IF hits = {} THEN 0 ELSE CHOOSE i \in hits : \A j \in hits : i <= j

\* Number.isInteger(cardNumber) && cardNumber >= 1 && cardNumber <= 9
ValidCardNumber(cardNumber2) ==
  cardNumber2 % 2 = 0 /\ cardNumber2 >= 2 /\ cardNumber2 <= 2 * SlotsPerPage

\* variant: the new url is written to the same slot of every front record
ReplaceFrontIn_EverySheet(pages, f, idx, newUrl) ==
  [i \in DOMAIN pages |->
     IF pages[i].side = "front" /\ idx \in DOMAIN pages[i].slots
     THEN [pages[i] EXCEPT !.slots[idx].url = newUrl]
     ELSE pages[i]]

\* front.slots[idx].url = newUrl
ReplaceFrontIn(pages, f, idx, newUrl) == [pages EXCEPT ![f].slots[idx].url = newUrl]

\* the records after replaceFront and the boolean it returns
replaceFront(pages, pageNumber, cardNumber2, newUrl) ==
  IF ~ValidCardNumber(cardNumber2) THEN [pages |-> pages, result |-> FALSE]
  ELSE LET f == PsFind(pages, pageNumber, "front")
           idx == cardNumber2 \div 2
       IN IF f = 0 THEN [pages |-> pages, result |-> FALSE]
          ELSE IF idx \notin DOMAIN pages[f].slots THEN [pages |-> pages, result |-> FALSE]
          ELSE [pages |-> ReplaceFrontIn(pages, f, idx, newUrl), result |-> TRUE]

\* the sheet numbers in use, and one below and one above them
PageNumbers == 0..((MaxPsPages + 1) \div 2 + 1)

CardNumbers2 == {0, 2, 3, 4, 2 * SlotsPerPage, 2 * SlotsPerPage + 2}

InitPage ==
  /\ NoExport
  /\ RerunIdle
  /\ FetchIdle
  /\ ChanInit
  /\ GeomIdle
  /\ SdIdle
  /\ LayoutIdle
  /\ ScryIdle
  /\ LoadIdle
  /\ PageIdle

CallSetFromLayout(layout, cards) ==
  /\ psPc = "new"
  /\ psLayout' = layout
  /\ psPages' = setFromLayout(layout, cards)
  /\ psPc' = "set"
  /\ UNCHANGED <<psOut, psCall>>
  /\ UNCHANGED notPage

CallToLayoutPages ==
  /\ psPc = "set" /\ psOut = <<>> /\ psCall = <<>>
  /\ psOut' = <<toLayoutPages(psPages)>>
  /\ UNCHANGED <<psPages, psPc, psLayout, psCall>>
  /\ UNCHANGED notPage

CallReplaceFront(pageNumber, cardNumber2, newUrl) ==
  /\ psPc = "set" /\ psCall = <<>> /\ psOut = <<>>
  /\ LET r == replaceFront(psPages, pageNumber, cardNumber2, newUrl)
     IN /\ psPages' = r.pages
        /\ psCall' = <<[pageNumber |-> pageNumber, cardNumber2 |-> cardNumber2,
                        newUrl |-> newUrl, before |-> psPages, result |-> r.result]>>
  /\ UNCHANGED <<psPc, psLayout, psOut>>
  /\ UNCHANGED notPage

NextPage ==
  \/ \E layout \in PsLayouts, cards \in PsCards : CallSetFromLayout(layout, cards)
  \/ CallToLayoutPages
  \/ \E pageNumber \in PageNumbers, cardNumber2 \in CardNumbers2 :
       CallReplaceFront(pageNumber, cardNumber2, <<"new", 0>>)

PageSpec == InitPage /\ [][NextPage]_vars

\* ---------------------------------------------------------------------
\* Chunked collection requests: fetchCollectionByNames and fetchWithRetry
\* (lib/scryfall/service). The names are 1..fcNames; chunk i (from 0) holds
\* the names i * BATCH_SIZE + 1 .. min((i + 1) * BATCH_SIZE, fcNames).
\* ---------------------------------------------------------------------
BATCH_SIZE == 75

\* opts?.attempts ?? 3
Attempts == 3

\* chunk(names, BATCH_SIZE).length
ChunkCount(n) == Ceil(n, BATCH_SIZE)

\* list lengths at both ends of every number of chunks up to MaxChunks
NameCounts ==
  {0} \cup { (c - 1) * BATCH_SIZE + 1 : c \in 1..MaxChunks } \cup
          { c * BATCH_SIZE : c \in 1..MaxChunks }

FcFinished(ws) == \A w \in WorkerIds : ws[w].pc \in {"none", "done", "threw"}

\* the synchronous start of a worker: the loop test, const i = nextIndex++ and
\* the first fetch of chunk i; the workers are created one after the other
InitFetch ==
  /\ NoExport
  /\ RerunIdle
  /\ ChanInit
  /\ GeomIdle
  /\ SdIdle
  /\ LayoutIdle
  /\ ScryIdle
  /\ LoadIdle
  /\ PageIdle
  /\ fcNames \in NameCounts
  /\ nextIndex = Min(CONCURRENCY, ChunkCount(fcNames))
  /\ fcWorkers = [w \in WorkerIds |->
                    IF w <= Min(CONCURRENCY, ChunkCount(fcNames))
                    THEN [pc |-> "fetch", i |-> w - 1, attempt |-> 0]
                    ELSE NoWorker]
  /\ fcRequested = [c \in 1..ChunkCount(fcNames) |->
                      IF c <= CONCURRENCY THEN {c} ELSE {}]
  /\ fcStored = {}
  /\ fcPc = IF ChunkCount(fcNames) = 0 THEN "resolved" ELSE "running"

\* the worker is back at while (nextIndex < chunks.length): it takes the next
\* chunk and issues its first fetch, or its promise resolves; Promise.all
\* resolves when the last worker has resolved
FcLoop(w) ==
  IF nextIndex < ChunkCount(fcNames)
  THEN /\ fcWorkers' = [fcWorkers EXCEPT ![w] = [pc |-> "fetch", i |-> nextIndex,
                                                  attempt |-> 0]]
       /\ nextIndex' = nextIndex + 1
       /\ fcRequested' = [fcRequested EXCEPT ![nextIndex + 1] = @ \cup {w}]
       /\ fcPc' = fcPc
  ELSE /\ fcWorkers' = [fcWorkers EXCEPT ![w].pc = "done"]
       /\ UNCHANGED <<nextIndex, fcRequested>>
       /\ fcPc' = IF fcPc = "running" /\ FcFinished(fcWorkers')
                  THEN "resolved" ELSE fcPc

\* one attempt of fetchWithRetry settles: a response that is ok is returned,
\* another response or a rejected fetch leads, after the backoff, to the next
\* attempt or to return null, on which the worker continues with its loop
FcAttemptSettles(w, ok) ==
  /\ fcWorkers[w].pc = "fetch"
  /\ IF ok
     THEN /\ fcWorkers' = [fcWorkers EXCEPT ![w].pc = "json"]
          /\ UNCHANGED <<nextIndex, fcRequested, fcPc>>
     ELSE IF fcWorkers[w].attempt + 1 < Attempts
     THEN /\ fcWorkers' = [fcWorkers EXCEPT ![w].attempt = @ + 1]
          /\ UNCHANGED <<nextIndex, fcRequested, fcPc>>
     ELSE FcLoop(w)
  /\ UNCHANGED <<fcNames, fcStored>>
  /\ UNCHANGED notFetch

\* await res.json() settles: the cards are put into map and the worker
\* continues with its loop, or the worker's promise rejects and with it
\* Promise.all
FcJsonSettles(w, ok) ==
  /\ fcWorkers[w].pc = "json"
  /\ IF ok
     THEN /\ fcStored' = fcStored \cup {fcWorkers[w].i}
          /\ FcLoop(w)
     ELSE /\ fcWorkers' = [fcWorkers EXCEPT ![w].pc = "threw"]
          /\ fcPc' = IF fcPc = "running" THEN "rejected" ELSE fcPc
          /\ UNCHANGED <<nextIndex, fcRequested, fcStored>>
  /\ UNCHANGED fcNames
  /\ UNCHANGED notFetch

NextFetch ==
  \/ \E w \in WorkerIds, ok \in BOOLEAN : FcAttemptSettles(w, ok)
  \/ \E w \in WorkerIds, ok \in BOOLEAN : FcJsonSettles(w, ok)

FetchSpec == InitFetch /\ [][NextFetch]_vars

\* ---------------------------------------------------------------------
\* Two exports in a row: generatePngBlobs is called again with the same
\* pages argument after the first call's pipeline run has finished
\* ---------------------------------------------------------------------
InitRerun ==
  /\ entry = "generatePngBlobs"
  /\ upscaleWithSD = TRUE
  /\ argPages \in ExpBatches
  /\ records \in {<<>>, SetFromLayout(argPages)}
  /\ list = GetPagesFromServiceOrArg(records, argPages)
  /\ aliased = ~UseService(records, argPages)
  /\ pc = "upscale"
  /\ InitRun
  /\ LibInit

\* the second call: getPagesFromServiceOrArg builds its list again, the probe
\* answers true and maybeUpscalePages is about to be called with fresh locals
ExportAgain ==
  /\ ppc = "finished" /\ prevRun = <<>>
  /\ prevRun' = <<[list |-> list, calls |-> calls, cache |-> cache]>>
  /\ list' = GetPagesFromServiceOrArg(records, argPages)
  /\ aliased' = ~UseService(records, argPages)
  /\ pc' = "upscale"
  /\ ppc' = "idle"
  /\ orig' = <<>>
  /\ defaultBackUrl' = Null
  /\ unique' = {}
  /\ total' = 0
  /\ current' = 0
  /\ cur' = <<1, 1>>
  /\ inflight' = 0
  /\ calls' = <<>>
  /\ events' = <<>>
  /\ UNCHANGED <<runs, cache>>
  /\ UNCHANGED <<entry, upscaleWithSD, records, argPages, probed, alerted>>
  /\ UNCHANGED renderVars
  /\ UNCHANGED notRerun

NextRerun ==
  \/ NextPipe
  \/ ExportAgain

RerunSpec == InitRerun /\ [][NextRerun]_vars

\* ---------------------------------------------------------------------
\* Properties
\* ---------------------------------------------------------------------
Positions(pages) ==
  UNION { {<<p, i>> : i \in DOMAIN pages[p].images} : p \in DOMAIN pages }

\* the default-back predicate of the run
IsDefaultBack(url) == (defaultBackUrl # Null /\ url = defaultBackUrl) \/ IsCardback(url)

\* the positions of the batch whose image the run treats as eligible
EligiblePositions ==
  { q \in Positions(orig) : Eligible(orig[q[1]].role, orig[q[1]].images[q[2]], defaultBackUrl) }

DistinctEligible == { orig[q[1]].images[q[2]] : q \in EligiblePositions }

Finished == ppc = "finished"

DoneEvents == { k \in DOMAIN events : events[k].done }

CallAt(q) == { k \in DOMAIN calls : calls[k].p = q[1] /\ calls[k].i = q[2] }

\* C1: the number of upscaleWithSd calls never exceeds the number of distinct
\* eligible URLs of the batch and equals it when the run has finished, whatever
\* the outcome of each call.
C1_OneCallPerDistinctUrl ==
  /\ ppc # "idle" => Len(calls) <= Cardinality(DistinctEligible)
  /\ Finished => Len(calls) = Cardinality(DistinctEligible)

C3_CurrentNeverDecreases ==
  \A k \in 1..(Len(events) - 1) :
    /\ events[k].current <= events[k + 1].current
    /\ events[k].total = events[k + 1].total

\* C4 as stated: the first event is {0, total, total = 0}, the last one is
\* {total, total, true}, and between them there is one event per processed
\* eligible image, whether a real call or the dedup map served it.
C4_EventPerProcessedImage ==
  Finished => /\ events[1] = Event(0, total, total = 0)
              /\ events[Len(events)] = Event(total, total, TRUE)
              /\ Len(events) = Cardinality(EligiblePositions) + 2
              /\ \A k \in 1..(Len(events) - 2) : events[k + 1] = Event(k, total, k >= total)

\* C4 as amended: the first event {0, total, total = 0} is emitted before any
\* call, the last one is {total, total, true}, and between them exactly one event
\* {k, total, k >= total} follows the k-th completed upscaleWithSd call (successful
\* or failed); an image served by the dedup map emits no event.
C4_EventPerCall ==
  LET completed == Len(calls) - inflight IN
  /\ ppc = "idle" => events = <<>> /\ calls = <<>>
  /\ ppc # "idle" =>
       /\ events[1] = Event(0, total, total = 0)
       /\ Len(events) = 1 + completed + (IF Finished THEN 1 ELSE 0)
       /\ \A k \in 1..completed : events[k + 1] = Event(k, total, k >= total)
       /\ Finished => events[Len(events)] = Event(total, total, TRUE)

C4_Witness ==
  /\ Finished
  /\ Len(calls) = 2
  /\ Cardinality(EligiblePositions) = 3
  /\ Len(events) = 4

\* C5: after the run every eligible image whose url was u, for a u whose
\* enhancement succeeded, holds the data URI that call returned.
C5_AllOccurrencesRewritten ==
  Finished =>
    \A k \in DOMAIN calls : calls[k].ok =>
      \A q \in EligiblePositions :
        orig[q[1]].images[q[2]] = calls[k].url => list[q[1]].images[q[2]] = calls[k].dataUrl

C7_FailureIsNotFatal ==
  /\ \A k \in DOMAIN calls :
       /\ (~calls[k].pending /\ ~calls[k].ok) =>
            list[calls[k].p].images[calls[k].i] = orig[calls[k].p].images[calls[k].i]
       /\ calls[k].ok => list[calls[k].p].images[calls[k].i] = calls[k].dataUrl
  /\ Finished =>
       /\ pc # "rejected"
       /\ \A q \in EligiblePositions :
            \/ CallAt(q) # {}
            \/ list[q[1]].images[q[2]] \in DataUris \ {orig[q[1]].images[q[2]]}

C7_Witness ==
  /\ Finished
  /\ Len(calls) >= 2
  /\ ~calls[1].ok
  /\ calls[2].ok
  /\ calls[1].url # calls[2].url
  /\ list[calls[1].p].images[calls[1].i] = calls[1].url
  /\ list[calls[2].p].images[calls[2].i] = calls[2].dataUrl

\* C8: when upscaling is enabled and the probe answered false, an alert is shown,
\* no image is drawn, no page is rendered and no artifact is handed out, in
\* every entry point.
C8_UnavailableAbortsExport ==
  (upscaleWithSD /\ probed = "unavailable") =>
    /\ alerted
    /\ drawn = <<>>
    /\ rendered = <<>>
    /\ output = <<>>

\* C9: a slot whose image failed to load is drawn as a placeholder and the
\* export is not rejected because of it.
C9_LoadFailureIsIsolated ==
  \A q \in failedLoads : q \in placeholders /\ pc # "rejected"

\* C10: at most one upscaleWithSd call is in flight at any time, and a call is
\* in flight exactly while the loop awaits it.
C10_OneCallInFlight ==
  /\ inflight <= 1
  /\ inflight = Cardinality({ k \in DOMAIN calls : calls[k].pending })
  /\ \A k \in DOMAIN calls : calls[k].pending => k = Len(calls) /\ ppc = "await"

C10_Witness ==
  /\ inflight = 1
  /\ Len(calls) = 2
  /\ ~calls[1].pending
  /\ calls[2].pending

\* the export has reached its rendering loop or has gone past it
RenderingBegun ==
  \/ pc \in {"render", "returned"}
  \/ drawn # <<>> \/ rendered # <<>> \/ failedLoads # {} \/ output # <<>>

Front(seq) == SubSeq(seq, 1, Len(seq) - 1)

Overlap(a, b) ==
  /\ a.x < b.x + b.w /\ b.x < a.x + a.w
  /\ a.y < b.y + b.h /\ b.y < a.y + a.h

\* C13: the nine rectangles createCardSlot returns for positions 1..9 of a page
\* all have the same positive w and h, no two of them overlap, the right edge
\* of each slot is the left edge of the next slot of its row and the bottom edge
\* of each slot is the top edge of the slot below it.
C13_SlotsTileTheGrid ==
  canvasPage # <<>> =>
    LET P == 1..(COLS * ROWS) IN
    \A R \in {[p \in P |-> CreateCardSlot(canvasPage[1], 2 * p, FALSE).rect]} :
       /\ \A p, q \in P : R[p].w = R[q].w /\ R[p].h = R[q].h
       /\ \A p \in P : R[p].w > 0 /\ R[p].h > 0
       /\ \A p, q \in P : p # q => ~Overlap(R[p], R[q])
       /\ \A p \in P : p % COLS # 0 =>
            R[p].x + R[p].w = R[p + 1].x /\ R[p].y = R[p + 1].y
       /\ \A p \in P : p + COLS \in P =>
            R[p].y + R[p].h = R[p + COLS].y /\ R[p].x = R[p + COLS].x
       /\ (slotCall # <<>> /\ ~slotCall[1].threw) =>
            slotCall[1].rect = R[slotCall[1].position2 \div 2]

C13_Witness ==
  /\ slotCall # <<>>
  /\ slotCall[1].position2 = 18
  /\ ~slotCall[1].threw
  /\ options.bleed = 30
  /\ options.printScaleCompensation = <<1025>>
  /\ options.dpi = 300
  /\ slotCall[1].rect.x > 2 * slotCall[1].rect.w

ScaleRange == 950..1100

\* C14: the scale computeLayoutMetrics returns is within [0.95, 1.10]
\* for every printScaleCompensation, and a missing value yields 1; this is
\* required of computeLayoutMetrics of lib/exportUtils and of lib/export.
C14_ScaleClampedAbsentIsOne ==
  /\ canvasPage # <<>> =>
       /\ canvasPage[1].metrics.scale \in ScaleRange
       /\ options.printScaleCompensation = <<>> => canvasPage[1].metrics.scale = 1000
  /\ legacyMetrics # <<>> =>
       /\ legacyMetrics[1].scale \in ScaleRange
       /\ options.printScaleCompensation = <<>> => legacyMetrics[1].scale = 1000

\* C15: for every ExportOptions the margins are non-negative and the scaled
\* grid does not exceed the page: 2 * marginXMm + 3 * cardWMm * scale <= pageWMm,
\* and likewise for the Y axis with 3 rows.
C15_GridFitsThePage ==
  canvasPage # <<>> =>
    \A m \in {canvasPage[1].metrics} :
      /\ m.marginXMm >= 0
      /\ m.marginYMm >= 0
      /\ m.marginXMm + COLS * m.cardWMm * m.scale <= PageWMm(options) * 1000
      /\ m.marginYMm + ROWS * m.cardHMm * m.scale <= PageHMm(options) * 1000

\* C16: createCardSlot throws, without any fillRect on the canvas, for every
\* position that is not an integer in 1..9 (0, 10, negative, fractional), and
\* for every integer position in 1..9 it returns a rectangle without throwing.
C16_InvalidPositionThrows ==
  \A c \in {slotCall[k] : k \in DOMAIN slotCall} :
    IF c.position2 \in {2 * k : k \in 1..9}
    THEN ~c.threw /\ c.rect.w > 0 /\ c.rect.h > 0
    ELSE c.threw /\ c.fills = <<>>

C16_Witness ==
  /\ slotCall # <<>>
  /\ slotCall[1].position2 = 3
  /\ slotCall[1].threw
  /\ options.bleed > 0

\* the lines drawCutGuidelines draws for the slot at position2 under opts
GuidesFor(opts, position2) ==
  GuideLines(CreateCardSlot(CanvasPageOf(opts), position2, opts.bleed > 0).rect, 0)

\* C17: the lines drawCutGuidelines draws for a slot are the same for bleed = 0,
\* 1 and 3 mm with all other options fixed.
C17_GuidesIndependentOfBleed ==
  \A g \in {guideCall[k] : k \in DOMAIN guideCall} :
    \A b \in {0, 10, 30} :
      GuidesFor([options EXCEPT !.bleed = b], g.position2) = g.lines

Posts == { k \in DOMAIN sdRequests : sdRequests[k].method = "POST" }

\* C18: isSdAvailable never rejects; it sends one GET and resolves with true
\* exactly when the GET was answered with a 2xx status and a body that parses
\* as JSON, and with false for any other status, a network error, an abort and
\* a body that is not JSON.
C18_ProbeNeverThrows ==
  sdCall.fn = "isSdAvailable" =>
    /\ ~sdThrew
    /\ Posts = {}
    /\ Len(sdRequests) <= 1
    /\ sdPc = "done" =>
         /\ probeResult \in {<<TRUE>>, <<FALSE>>}
         /\ probeResult = <<TRUE>> <=>
              /\ sdResponse # <<>>
              /\ \A res \in {sdResponse[k] : k \in DOMAIN sdResponse} :
                   ResOk(res.status) /\ res.body.kind # "not-json"

C18_Witness ==
  /\ sdCall.fn = "isSdAvailable"
  /\ sdPc = "done"
  /\ probeResult = <<FALSE>>
  /\ sdResponse # <<>>
  /\ sdResponse[1].status = 200
  /\ sdResponse[1].body.kind = "not-json"

\* C19: one call of upscaleWithSd sends at most one POST and never rejects;
\* a failed source fetch, a response that is not 2xx, a response without an
\* image field and every exception yield a result with ok = false, and a result
\* with ok = true carries a data:image/png;base64 URI.
C19_OnePostNoThrow ==
  sdCall.fn = "upscaleWithSd" =>
    /\ ~sdThrew
    /\ Cardinality(Posts) <= 1
    /\ sdPc = "done" =>
         /\ upscaleResult # <<>>
         /\ \A r \in {upscaleResult[k] : k \in DOMAIN upscaleResult} :
              /\ r.ok => /\ Len(r.dataUrl) = 2 /\ r.dataUrl[1] = PngPrefix
                          /\ Cardinality(Posts) = 1
              /\ Posts = {} => ~r.ok
              /\ sdResponse = <<>> => ~r.ok
              /\ \A res \in {sdResponse[k] : k \in DOMAIN sdResponse} :
                   (\/ ~ResOk(res.status)
                    \/ res.body.kind # "object"
                    \/ res.body.image.kind # "string") => ~r.ok

C19_Witness ==
  /\ sdCall.fn = "upscaleWithSd"
  /\ sdPc = "done"
  /\ upscaleResult # <<>>
  /\ upscaleResult[1].ok
  /\ upscaleResult[1].dataUrl = <<PngPrefix, "QUJD">>
  /\ sdResponse[1].body.image.parts = <<PngPrefix, "QUJD">>
  /\ sdRequests[2].prefix = "/sd"

\* C20: on every sheet buildLayout returns, the card at front position
\* (row r, column c) of the 3-column grid has its back image at position
\* (row r, column 2 - c) of the back sheet, also in a partially filled last row.
C20_BackOppositeFront ==
  \A pages \in {layoutPages[k] : k \in DOMAIN layoutPages} :
    \A s \in 1..(Len(pages) \div 2) :
      LET front == pages[2 * s - 1]
          back == pages[2 * s]
      IN \A j \in DOMAIN front.images :
           LET r == (j - 1) \div cols
               c == (j - 1) % cols
               card == cardImages[(s - 1) * perPage + j]
               b == r * cols + (cols - 1 - c) + 1
           IN /\ front.images[j].url = card.frontUrl
              /\ b \in DOMAIN back.images
              /\ back.images[b].url = BackUrlOf(card, defaultBack)

\* C21: when scryfallService returns, results holds exactly one CardImage per
\* input item, and the k-th entry was built for the k-th item: unresolved items
\* and token items have an entry too, and no item's entry is shifted.
C21_OneEntryPerItem ==
  scPc = "done" =>
    /\ Len(results) = Len(items)
    /\ \A k \in DOMAIN results : resultFrom[k] = k

LdPrimaryFailed ==
  \E k \in DOMAIN ldLog : ldLog[k].step \in {"fetch", "blob", "decode"} /\ ~ldLog[k].ok

LdPrimarySucceeded == \E k \in DOMAIN ldLog : ldLog[k].step = "decode" /\ ldLog[k].ok

LdFallbackAttempted ==
  ldPc = "fallback" \/ \E k \in DOMAIN ldLog : ldLog[k].step = "fallback"

LdFallbackFailed == \E k \in DOMAIN ldLog : ldLog[k].step = "fallback" /\ ~ldLog[k].ok

\* C22: both loadImage functions attempt the direct image element exactly when
\* the primary path (fetch, blob, decode) has failed; the call rejects exactly when
\* the fallback has failed too, and a primary path that succeeds resolves the
\* call without the fallback.
C22_FallbackIffPrimaryFailed ==
  /\ LdFallbackAttempted <=> LdPrimaryFailed
  /\ ldResult = <<"rejected">> <=> (LdPrimaryFailed /\ LdFallbackFailed)
  /\ LdPrimarySucceeded => (ldResult = <<"resolved">> /\ ~LdFallbackAttempted)
  /\ Cardinality({ k \in DOMAIN ldLog : ldLog[k].step = "fallback" }) <= 1

C22_Witness ==
  /\ ldPc = "done"
  /\ ldResult = <<"resolved">>
  /\ \E k \in DOMAIN ldLog : ldLog[k].step = "decode" /\ ~ldLog[k].ok
  /\ \E k \in DOMAIN ldLog : ldLog[k].step = "fallback" /\ ldLog[k].ok

\* C23: every progress event emitted by a run has 0 <= current <= total, whatever
\* the batch and whichever enhance calls succeed or fail.
C23_CurrentWithinTotal ==
  \A k \in DOMAIN events : 0 <= events[k].current /\ events[k].current <= events[k].total

\* C24: once the availability probe has answered false, in every entry point no
\* upscaleWithSd call has been made or is made, no progress event has been or is
\* emitted, and no url of the pages the export works on, of the caller's pages
\* or of pageService changes.
C24_UnavailableTouchesNothing ==
  [][probed' = "unavailable" =>
       /\ calls' = <<>> /\ events' = <<>> /\ runs' = 0 /\ inflight' = 0
       /\ UNCHANGED <<list, argPages, records>>]_vars

C24_Witness ==
  /\ entry = "exportToPdf"
  /\ upscaleWithSD /\ probed = "unavailable"
  /\ pc = "returned"
  /\ \E k \in DOMAIN drawn : drawn[k][3] = "a"
  /\ calls = <<>> /\ events = <<>>

\* C25: when pageService holds at least one record and as many records as the
\* pages argument has pages, no step of the export changes a record of pageService
\* or a url of the caller's pages: enhancement rewrites only the rebuilt pages.
C25_ServicePagesAreCopies ==
  [][UseService(records, argPages) => UNCHANGED <<records, argPages>>]_vars

C25_Witness ==
  /\ UseService(records, argPages)
  /\ pc = "returned"
  /\ \E k \in DOMAIN calls : calls[k].ok
  /\ \E p \in DOMAIN list : \E i \in DOMAIN list[p].images :
       /\ list[p].images[i] \in DataUris
       /\ argPages[p].images[i] = "a"
       /\ records[p].slots[i] = "a"

\* the front record replaceFront works on: the first one with that sheet number
FrontRecordOf(c) ==
  { i \in DOMAIN c.before :
      /\ c.before[i].side = "front" /\ c.before[i].pageNumber = c.pageNumber
      /\ \A j \in 1..(i - 1) :
           ~(c.before[j].side = "front" /\ c.before[j].pageNumber = c.pageNumber) }

\* C26: replaceFront returns false and leaves every record as it was when
\* cardNumber is not an integer in 1..9, when there is no front record of that
\* sheet, or when the record has no such slot; otherwise it returns true, the
\* slot has the new url, and its name and card, every other slot, every other
\* record and the number and order of the records are as before.
C26_ReplaceFrontChangesOneUrl ==
  \A c \in {psCall[k] : k \in DOMAIN psCall} :
    LET isCardNumber == \E n \in 1..9 : c.cardNumber2 = 2 * n
        idx == c.cardNumber2 \div 2
        refused == \/ ~isCardNumber
                   \/ FrontRecordOf(c) = {}
                   \/ \A f \in FrontRecordOf(c) : idx > Len(c.before[f].slots)
    IN IF refused
       THEN ~c.result /\ psPages = c.before
       ELSE /\ c.result
            /\ Len(psPages) = Len(c.before)
            /\ \A i \in DOMAIN psPages :
                 /\ psPages[i].pageNumber = c.before[i].pageNumber
                 /\ psPages[i].side = c.before[i].side
                 /\ Len(psPages[i].slots) = Len(c.before[i].slots)
                 /\ \A k \in DOMAIN psPages[i].slots :
                      /\ psPages[i].slots[k].name = c.before[i].slots[k].name
                      /\ psPages[i].slots[k].card = c.before[i].slots[k].card
                      /\ psPages[i].slots[k].url =
                           IF i \in FrontRecordOf(c) /\ k = idx
                           THEN c.newUrl
                           ELSE c.before[i].slots[k].url

C26_Witness ==
  /\ psCall # <<>>
  /\ psCall[1].result
  /\ psPages # psCall[1].before
  /\ psCall[1].pageNumber = 2
  /\ Len(psPages) = 3
  /\ psPages[2].side = "back"
  /\ psPages[1].side = "front"
  /\ psPages[3].slots[1].card # <<>>
  /\ psPages[3].slots[1].url = <<"new", 0>>

\* C27: toLayoutPages after setFromLayout(L) returns one page per page of L, in
\* the same order and with the same role; page i (from 0) has the id of sheet
\* floor(i / 2) + 1 and the urls and names of the first 9 images of page i of L,
\* so a page of at most 9 images keeps all of them and later images are dropped.
C27_RoundTripKeepsFirstNine ==
  \A out \in {psOut[k] : k \in DOMAIN psOut} :
    /\ Len(out) = Len(psLayout)
    /\ \A i \in DOMAIN out :
         /\ out[i].role = psLayout[i].role
         /\ out[i].id = <<psLayout[i].role, ((i - 1) \div 2) + 1>>
         /\ Len(out[i].images) = Min(9, Len(psLayout[i].images))
         /\ \A k \in DOMAIN out[i].images :
              /\ out[i].images[k].url = psLayout[i].images[k].url
              /\ out[i].images[k].name = psLayout[i].images[k].name

C27_Witness ==
  /\ psOut # <<>>
  /\ Len(psLayout) = 3
  /\ Len(psLayout[3].images) = 10
  /\ Len(psLayout[1].images) = 9
  /\ Len(psOut[1][3].images) = 9
  /\ psOut[1][3].id[2] = 2

\* C28: no chunk is ever requested by two workers; once every worker has
\* finished, every chunk has been requested by exactly one worker, so a chunk
\* whose request failed has stopped no other chunk; and fetchCollectionByNames
\* settles only after every worker has finished.
C28_EveryChunkRequestedOnce ==
  /\ \A c \in DOMAIN fcRequested : Cardinality(fcRequested[c]) <= 1
  /\ FcFinished(fcWorkers) =>
       \A c \in DOMAIN fcRequested : Cardinality(fcRequested[c]) = 1
  /\ fcPc \in {"resolved", "rejected"} => FcFinished(fcWorkers)

\* the urls the first run wrote that the second run found at an eligible position
RewrittenEligible == DistinctEligible \cap DataUris

\* C29: when a second run over pages rewritten by a first run has finished, every
\* distinct data URI of the first run that the second run found at an eligible
\* position has been sent to upscaleWithSd by the second run, and the dedup map
\* of the second run held nothing of the first run when it began.
C29_SecondRunCallsAgain ==
  prevRun # <<>> =>
    /\ (ppc = "loop" /\ calls = <<>>) => cache = <<>>
    /\ Finished =>
         \A d \in RewrittenEligible : \E k \in DOMAIN calls : calls[k].url = d

C29_Witness ==
  /\ prevRun # <<>>
  /\ Finished
  /\ aliased
  /\ RewrittenEligible # {}
  /\ \E j \in DOMAIN prevRun[1].calls : \E k \in DOMAIN calls :
       /\ prevRun[1].calls[j].ok
       /\ calls[k].url = prevRun[1].calls[j].dataUrl

\* the cards of sheet s, from 1
SheetCards(s) == SubSeq(cardImages, (s - 1) * 9 + 1, Min(s * 9, Len(cardImages)))

\* the back of a card: its backUrl if set, else the default back if set, else
\* its frontUrl
ExpectedBack(c) ==
  IF c.backUrl # <<>> THEN c.backUrl
  ELSE IF defaultBack # <<>> THEN defaultBack
  ELSE c.frontUrl

\* C30: either buildLayout over n cards returns 2 * ceil(n / 9) pages, front-k
\* then back-k for each sheet k; both pages of a sheet hold the same number of
\* images, at most 9; the front page lists the frontUrl of the sheet's cards in
\* input order, and the back page holds the expected back of each of them, as
\* often as the sheet's cards have it.
C30_PagesOfBuildLayout ==
  \A pages \in {layoutPages[k] : k \in DOMAIN layoutPages} :
    LET n == Len(cardImages)
        sheets == (n + 8) \div 9
    IN /\ Len(pages) = 2 * sheets
       /\ \A s \in 1..sheets :
            LET front == pages[2 * s - 1]
                back == pages[2 * s]
                cards == SheetCards(s)
            IN /\ front.role = "front" /\ front.id = <<"front", s>>
               /\ back.role = "back" /\ back.id = <<"back", s>>
               /\ Len(front.images) <= 9
               /\ Len(front.images) = Len(cards)
               /\ Len(back.images) = Len(front.images)
               /\ \A j \in DOMAIN front.images : front.images[j].url = cards[j].frontUrl
               /\ \A u \in {ExpectedBack(cards[j]) : j \in DOMAIN cards} \cup
                           {back.images[j].url : j \in DOMAIN back.images} :
                    Cardinality({ j \in DOMAIN back.images : back.images[j].url = u }) =
                    Cardinality({ j \in DOMAIN cards : ExpectedBack(cards[j]) = u })

C30_Witness ==
  /\ layoutPages # <<>>
  /\ Len(cardImages) = 10
  /\ Len(layoutPages[1]) = 4
  /\ defaultBack # <<>>
  /\ cardImages[1].backUrl # <<>>
  /\ cardImages[2].backUrl = <<>>
  /\ layoutPages[1][2].images[9].url = cardImages[1].backUrl
  /\ layoutPages[1][2].images[8].url = defaultBack

====
